---------------------------- MODULE Spec2Model ----------------------------
(***************************************************************************)
(* A model of the extraction-and-normalization pipeline of                 *)
(* agentic_valdosta_calendar (backend/generic_scraper.py, backend/main.py).*)
(*                                                                         *)
(* Dates are records [y, m, d]; a text (title, recurring pattern) is a     *)
(* sequence of words, joined by single spaces; a time string is a sequence *)
(* of one-character strings.  A start "DATE" + "T" + "TIME" is the record  *)
(* [date |-> DATE, time |-> TIME]; a start without a "T" has time = NoT.   *)
(***************************************************************************)
EXTENDS Integers, Sequences, FiniteSets, TLC

VARIABLES
    pc,          \* position of the run
    today,       \* datetime.now().date() of the run
    heap,        \* the dict objects alive in the run, by object id
    origin,      \* history: for each object, the input object it was made from
    results,     \* _expand_recurring_events: the input list (object ids)
    expanded,    \* _expand_recurring_events: the returned list (object ids)
    event_urls,  \* _scrape_twostage: the Stage-1 items
    with_url,    \* _scrape_twostage: events_with_external_urls (indices of event_urls)
    all_results, \* _scrape_twostage: the entries appended so far
    made_for,    \* history: for each entry of all_results, the Stage-1 item it is for
    idx,         \* _scrape_twostage: position of the Stage-2 loop
    stage2,      \* history: the outcome of each Stage-2 iteration so far
    log,         \* history: the detail-page fetches and the pauses, in order
    site,        \* generate_events: position of the loop over APPROVED_SITES
    all_events,  \* generate_events: the events gathered so far
    attractions, \* generate_events: the attractions gathered so far
    client,      \* main.py: the chat client made at start-up, or NULL
    user_query,  \* generate_events: the words of the request's query
    source_type, \* scrape_with_ai: the category asked for
    cur_item,    \* scrape_with_ai: the item of the extraction answer at hand
    arg,         \* the argument of a function called on its own
    ret,         \* the value that call returned
    returned,    \* the list the run returns
    req,         \* the server: for each request, where its handler stands
    sources_file \* source_manager.py: the sources list stored in SOURCES_FILE

exVars == <<heap, origin, results, expanded>>
tsVars == <<event_urls, with_url, all_results, made_for, idx, stage2, log>>
geVars == <<site, all_events, attractions, client, user_query>>
spVars == <<source_type, cur_item>>
puVars == <<arg, ret>>
rqVars == <<req, sources_file>>
vars == <<pc, today, heap, origin, results, expanded,
          event_urls, with_url, all_results, made_for, idx, stage2, log,
          site, all_events, attractions, client, user_query,
          source_type, cur_item, arg, ret, returned, req,
          sources_file>>

(***************************************************************************)
(* Bounds of the model.                                                    *)
(***************************************************************************)
MaxResults == 2
MaxItems == 2

\* None, for a text or a time
NULL == <<"None">>
NoT == <<"no", "T">>

(***************************************************************************)
(* datetime: the proleptic Gregorian calendar as CPython computes it.      *)
(***************************************************************************)
MkDate(y, m, d) == [y |-> y, m |-> m, d |-> d]

IsLeap(y) == (y % 4 = 0) /\ ((y % 100 # 0) \/ (y % 400 = 0))

DaysInMonth(y, m) ==
    IF m = 2 THEN (IF IsLeap(y) THEN 29 ELSE 28)
    ELSE IF m \in {4, 6, 9, 11} THEN 30 ELSE 31

RECURSIVE DaysBeforeMonth(_, _)
DaysBeforeMonth(y, m) ==
    IF m = 1 THEN 0 ELSE DaysBeforeMonth(y, m - 1) + DaysInMonth(y, m - 1)

DaysBeforeYear(y) ==
    (y - 1) * 365 + ((y - 1) \div 4) - ((y - 1) \div 100) + ((y - 1) \div 400)

\* date.toordinal()
Ordinal(dt) == DaysBeforeYear(dt.y) + DaysBeforeMonth(dt.y, dt.m) + dt.d

\* date.weekday(): Monday = 0 ... Sunday = 6
Weekday(dt) == (Ordinal(dt) + 6) % 7

\* date + timedelta(days = n), n >= 0
RECURSIVE AddDays(_, _)
AddDays(dt, n) ==
    IF dt.d + n <= DaysInMonth(dt.y, dt.m)
    THEN MkDate(dt.y, dt.m, dt.d + n)
    ELSE AddDays(MkDate(IF dt.m = 12 THEN dt.y + 1 ELSE dt.y,
                        IF dt.m = 12 THEN 1 ELSE dt.m + 1, 1),
                 n - (DaysInMonth(dt.y, dt.m) - dt.d) - 1)

\* date + relativedelta(months = i): the day is clipped to the month's length
AddMonths(dt, i) ==
    LET t  == (dt.m - 1) + i
        ny == dt.y + (t \div 12)
        nm == (t % 12) + 1
        dm == DaysInMonth(ny, nm)
    IN  MkDate(ny, nm, IF dt.d > dm THEN dm ELSE dt.d)

\* a >= b on dates
DateGE(a, b) == Ordinal(a) >= Ordinal(b)

DateLT(a, b) == Ordinal(a) < Ordinal(b)

(***************************************************************************)
(* str: lower(), "in", and the f-string join with one space.               *)
(***************************************************************************)
LowerWord(w) ==
    CASE w = "First"    -> "first"
      [] w = "Friday"   -> "friday"
      [] w = "Second"   -> "second"
      [] w = "Saturday" -> "saturday"
      [] w = "Third"    -> "third"
      [] w = "Tuesday"  -> "tuesday"
      [] w = "1ST"      -> "1st"
      [] w = "2ND"      -> "2nd"
      [] w = "3RD"      -> "3rd"
      [] w = "Every"    -> "every"
      [] w = "Monday"   -> "monday"
      [] w = "Monthly"  -> "monthly"
      [] w = "Art"      -> "art"
      [] w = "Walk"     -> "walk"
      [] w = "Safety"   -> "safety"
      [] w = "Market"   -> "market"
      [] w = "Board"    -> "board"
      [] w = "Meeting"  -> "meeting"
      [] w = "Mornings" -> "mornings"
      [] w = "January"  -> "january"
      [] w = "March"    -> "march"
      [] w = "MAY"      -> "may"
      [] OTHER          -> w

Lower(text) == [i \in 1..Len(text) |-> LowerWord(text[i])]

\* phrase in text
Contains(text, phrase) ==
    \E i \in 0..(Len(text) - Len(phrase)) :
        \A j \in 1..Len(phrase) : text[i + j] = phrase[j]

(***************************************************************************)
(* Times.  "HH:MM" is a sequence of characters; a start carries            *)
(* time_str + ":00".                                                       *)
(***************************************************************************)
T1900 == <<"1", "9", ":", "0", "0">>
T1800 == <<"1", "8", ":", "0", "0">>
T1000 == <<"1", "0", ":", "0", "0">>
Secs  == <<":", "0", "0">>

\* f"{date_str}T{time_str}:00"
MkStart(date, time_str) == [date |-> date, time |-> time_str \o Secs]

(***************************************************************************)
(* _expand_recurring_events                                                *)
(***************************************************************************)
HorizonMonths == 6

FirstFriday    == [name |-> "first friday", wd |-> 4, extra |-> 0,
                   phrases |-> {<<"first", "friday">>, <<"1st", "friday">>}]
SecondSaturday == [name |-> "second saturday", wd |-> 5, extra |-> 7,
                   phrases |-> {<<"second", "saturday">>, <<"2nd", "saturday">>}]
ThirdTuesday   == [name |-> "third tuesday", wd |-> 1, extra |-> 14,
                   phrases |-> {<<"third", "tuesday">>, <<"3rd", "tuesday">>}]
NoFamily       == [name |-> "none", wd |-> 0, extra |-> 0, phrases |-> {}]

Families == {FirstFriday, SecondSaturday, ThirdTuesday}

HasPhrase(text, fam) == \E p \in fam.phrases : Contains(text, p)

\* (event.get('recurring_pattern') or '')
OrEmpty(x) == IF x = NULL THEN <<>> ELSE x

\* search_text = f"{title} {recurring_pattern}", both lower-cased
SearchText(event) == Lower(event.title) \o Lower(OrEmpty(event.recurring_pattern))

\* the if / elif / elif chain over search_text
DetectFamily(text) ==
    IF HasPhrase(text, FirstFriday) THEN FirstFriday
    ELSE IF HasPhrase(text, SecondSaturday) THEN SecondSaturday
    ELSE IF HasPhrase(text, ThirdTuesday) THEN ThirdTuesday
    ELSE NoFamily

\* first_day + timedelta(days_until_<weekday>) (+ 7, + 14)
OccurrenceDate_NoModulo(y, m, wd, extra) ==
    LET first_day == MkDate(y, m, 1)
        d == wd - Weekday(first_day)
    IN  AddDays(first_day, (IF d < 0 THEN 0 - d ELSE d) + extra)

OccurrenceDate(y, m, wd, extra) ==
    LET first_day  == MkDate(y, m, 1)
        days_until == (wd - Weekday(first_day)) % 7
    IN  AddDays(first_day, days_until + extra)

\* event_time = original_start.split('T')[1] if 'T' in original_start else '19:00:00'
EventTime(start) == IF start.time # NoT THEN start.time ELSE T1900 \o Secs

\* recurring_event = event.copy(); recurring_event['start'] = ...; expanded.append(...)
EmitOccurrence_Alias(st, ev, newStart) ==
    [heap   |-> [st.heap EXCEPT ![ev].start = newStart],
     origin |-> st.origin,
     out    |-> Append(st.out, ev)]

EmitOccurrence(st, ev, newStart) ==
    [heap   |-> Append(st.heap, [st.heap[ev] EXCEPT !.start = newStart]),
     origin |-> Append(st.origin, st.origin[ev]),
     out    |-> Append(st.out, Len(st.heap) + 1)]

\* for i in range(6): ... if <occurrence>.date() >= datetime.now().date(): ...
RECURSIVE ExpandMonths(_, _, _, _, _)
ExpandMonths(st, ev, fam, i, now) ==
    IF i >= HorizonMonths THEN st
    ELSE LET target_month == AddMonths(now, i)
             occ == OccurrenceDate(target_month.y, target_month.m, fam.wd, fam.extra)
             event_time == EventTime(st.heap[ev].start)
         IN  IF DateGE(occ, now)
             THEN ExpandMonths(
                      EmitOccurrence(st, ev, [date |-> occ, time |-> event_time]),
                      ev, fam, i + 1, now)
             ELSE ExpandMonths(st, ev, fam, i + 1, now)

\* the body of "for event in results"
ExpandEvent(st, ev, now) ==
    LET fam == DetectFamily(SearchText(st.heap[ev]))
    IN  IF fam # NoFamily
        THEN ExpandMonths(st, ev, fam, 0, now)
        ELSE [st EXCEPT !.out = Append(st.out, ev)]

RECURSIVE ExpandLoop(_, _, _, _)
ExpandLoop(st, evs, k, now) ==
    IF k > Len(evs) THEN st
    ELSE ExpandLoop(ExpandEvent(st, evs[k], now), evs, k + 1, now)

ExpandRecurringEvents(h, org, evs, now) ==
    ExpandLoop([heap |-> h, origin |-> org, out |-> <<>>], evs, 1, now)

(***************************************************************************)
(* Specification SpecExpand: _expand_recurring_events applied to every     *)
(* list of at most MaxResults entries, on every day of the run months.     *)
(***************************************************************************)
Entry(title, url, description, start, pattern) ==
    [title |-> title, url |-> url, description |-> description, start |-> start,
     allDay |-> FALSE, recurring_pattern |-> pattern]

UrlA == "https://example.com/a"

SeedStart    == [date |-> MkDate(2026, 2, 20), time |-> T1800 \o Secs]
SeedStartNoT == [date |-> MkDate(2026, 3, 6), time |-> NoT]

Seeds ==
    { Entry(<<"Art", "Walk">>, UrlA, "Monthly art walk", SeedStart, NULL),
      Entry(<<"Art", "Walk">>, UrlA, "", SeedStart, <<>>),
      Entry(<<"Art", "Walk">>, UrlA, "", SeedStart,
            <<"first", "friday", "of", "each", "month">>),
      Entry(<<"First", "Friday", "Art", "Walk">>, UrlA, "", SeedStartNoT, <<>>),
      Entry(<<"Market">>, UrlA, "", SeedStart, <<"2ND", "Saturday">>),
      Entry(<<"Board", "Meeting">>, UrlA, "Regular meeting", SeedStart,
            <<"3rd", "tuesday">>),
      Entry(<<"First", "Friday", "Market">>, UrlA, "", SeedStart,
            <<"second", "saturday">>),
      Entry(<<"Safety", "First">>, UrlA, "", SeedStart, <<"Friday", "Mornings">>),
      Entry(<<"Board", "Meeting">>, UrlA, "", SeedStart, <<"Every", "Monday">>),
      Entry(<<"Board", "Meeting">>, UrlA, "", SeedStart, <<"unknown">>),
      Entry(<<"Market">>, UrlA, "", SeedStart, <<"Monthly">>) }

\* the run dates: around the three occurrences of February 2026 and of
\* November 2027, and month ends whose following months are shorter
RunDates ==
    { MkDate(2026, 2, d) : d \in {1, 6, 7, 14, 15, 17, 18, 28} } \cup
    { MkDate(2027, 11, d) : d \in {1, 5, 6, 30} } \cup
    { MkDate(2027, 12, 31), MkDate(2028, 1, 31), MkDate(2028, 8, 31) }

Identity(n) == [i \in 1..n |-> i]

InitExpand ==
    /\ pc = "expand"
    /\ today \in RunDates
    /\ \E n \in 0..MaxResults :
          /\ heap \in [1..n -> Seeds]
          /\ origin = Identity(n)
          /\ results = Identity(n)
    /\ expanded = <<>>
    /\ event_urls = <<>> /\ with_url = <<>> /\ all_results = <<>>
    /\ made_for = <<>> /\ idx = 0 /\ stage2 = <<>> /\ log = <<>>
    /\ site = 0 /\ all_events = <<>> /\ attractions = <<>>
    /\ client = NULL /\ user_query = <<>>
    /\ source_type = "events" /\ cur_item = <<>>
    /\ arg = <<>> /\ ret = <<>> /\ req = <<>> /\ sources_file = <<>>
    /\ returned = <<>>

\* expanded_results = _expand_recurring_events(deduplicated_results)
Expand ==
    /\ pc = "expand"
    /\ \E r \in {ExpandRecurringEvents(heap, origin, results, today)} :
          /\ heap' = r.heap
          /\ origin' = r.origin
          /\ expanded' = r.out
    /\ pc' = "expanded"
    /\ returned' = [i \in 1..Len(expanded') |-> heap'[expanded'[i]]]
    /\ UNCHANGED <<today, results>>
    /\ UNCHANGED tsVars /\ UNCHANGED geVars /\ UNCHANGED spVars /\ UNCHANGED puVars /\ UNCHANGED rqVars

NextExpand == Expand

SpecExpand == InitExpand /\ [][NextExpand]_vars

(***************************************************************************)
(* Claims about the expander (checked under SpecExpand).                   *)
(***************************************************************************)
\* the objects of the returned list made from (or being) input object k, in order
OutOf(k) ==
    LET FromK(id) == origin[id] = k
    IN  SelectSeq(expanded, FromK)

\* the phrase families a seed names in its title or in its recurring_pattern
NamedFamilies(e) ==
    { f \in Families : \/ HasPhrase(Lower(e.title), f)
                       \/ HasPhrase(Lower(OrEmpty(e.recurring_pattern)), f) }

\* a >= b on dates, by year, month, day
LexGE(a, b) ==
    \/ a.y > b.y
    \/ a.y = b.y /\ a.m > b.m
    \/ a.y = b.y /\ a.m = b.m /\ a.d >= b.d

\* the n-th day of weekday wd in month m of year y
NthWeekday(y, m, wd, n) ==
    CHOOSE dt \in { MkDate(y, m, d) : d \in 1..DaysInMonth(y, m) } :
        Weekday(dt) = wd /\ (dt.d - 1) \div 7 = n - 1

OrdinalOf(f) ==
    CASE f.name = "first friday" -> 1
      [] f.name = "second saturday" -> 2
      [] f.name = "third tuesday" -> 3

WeekdayOf(f) ==
    CASE f.name = "first friday" -> 4
      [] f.name = "second saturday" -> 5
      [] f.name = "third tuesday" -> 1

\* the occurrences of f in the 6 months from the current one that are not past
ExpectedDates(f, now) ==
    LET MonthNo(i) == now.y * 12 + (now.m - 1) + i
        Occ(i) == NthWeekday(MonthNo(i) \div 12, (MonthNo(i) % 12) + 1,
                             WeekdayOf(f), OrdinalOf(f))
        NotPast(dt) == LexGE(dt, now)
    IN  SelectSeq([i \in 1..6 |-> Occ(i - 1)], NotPast)

\* C6: a seed naming a recognized phrase is replaced by exactly one entry for
\* each of the 6 months from the current one whose Nth named weekday is not
\* before the current date (5 or 6 entries), in month order, and nothing else.
C6_ExpansionDates ==
    pc = "expanded" =>
        \A k \in 1..Len(results) :
            NamedFamilies(heap[results[k]]) # {} =>
                \E f \in Families :
                    /\ HasPhrase(SearchText(heap[results[k]]), f)
                    /\ LET outs == OutOf(results[k])
                           want == ExpectedDates(f, today)
                       IN  /\ Len(outs) = Len(want)
                           /\ Len(outs) \in {5, 6}
                           /\ \A j \in 1..Len(outs) :
                                 /\ heap[outs[j]].start.date = want[j]
                                 /\ outs[j] # results[k]

C6_Witness ==
    /\ pc = "expanded"
    /\ \E k \in 1..Len(results) :
          /\ NamedFamilies(heap[results[k]]) # {}
          /\ Len(OutOf(results[k])) = 5
    /\ \E k \in 1..Len(results) :
          /\ SecondSaturday \in NamedFamilies(heap[results[k]])
          /\ Len(OutOf(results[k])) = 6

\* C7: an entry whose title and recurring_pattern name no recognized phrase is
\* returned exactly once, as the same object, and such entries keep their
\* relative order.
C7_PassThrough ==
    pc = "expanded" =>
        /\ \A k \in 1..Len(results) :
              NamedFamilies(heap[results[k]]) = {} =>
                  OutOf(results[k]) = <<results[k]>>
        /\ \A k1, k2 \in 1..Len(results) :
              ( /\ k1 < k2
                /\ NamedFamilies(heap[results[k1]]) = {}
                /\ NamedFamilies(heap[results[k2]]) = {} ) =>
                  \A i1, i2 \in 1..Len(expanded) :
                      (expanded[i1] = results[k1] /\ expanded[i2] = results[k2])
                          => i1 < i2

\* C8: every occurrence equals its seed in every field except start, its start
\* keeps the seed's time component, and no existing object is modified.
C8_OccurrenceIsCopy ==
    [][ pc' = "expanded" =>
          /\ \A id \in 1..Len(heap) : heap'[id] = heap[id]
          /\ \A i \in 1..Len(expanded') :
                LET occ  == heap'[expanded'[i]]
                    seed == heap[origin'[expanded'[i]]]
                IN  expanded'[i] > Len(heap) =>
                      /\ DOMAIN occ = DOMAIN seed
                      /\ \A fld \in DOMAIN seed \ {"start"} : occ[fld] = seed[fld]
                      /\ seed.start.time # NoT => occ.start.time = seed.start.time
    ]_vars

C8_Witness ==
    /\ pc = "expanded"
    /\ \E i \in 1..Len(expanded) :
          /\ expanded[i] > Len(results)
          /\ heap[origin[expanded[i]]].start.time # NoT
          /\ heap[expanded[i]].start.date # heap[origin[expanded[i]]].start.date

(***************************************************************************)
(* _scrape_twostage (AI Stage 1 on one listing page, then Stage 2).        *)
(* A date string is a date record (an ISO date), NoDate ('', None or       *)
(* missing) or BadDate (a text datetime.fromisoformat rejects).            *)
(* Descriptions are at most 150 characters, which _truncate_description    *)
(* returns as they are.                                                    *)
(***************************************************************************)
Digits == {"0", "1", "2", "3", "4", "5", "6", "7", "8", "9"}

\* re.match(r'^\d{2}:\d{2}$', t): "$" also matches before a final newline
MatchesHHMM(t) ==
    /\ Len(t) = 5 \/ (Len(t) = 6 /\ t[6] = "\n")
    /\ t[1] \in Digits /\ t[2] \in Digits /\ t[3] = ":"
    /\ t[4] \in Digits /\ t[5] \in Digits

\* if not re.match(...): time_str = '19:00'
ValidTime(t) == IF MatchesHHMM(t) THEN t ELSE T1900

\* date strings that are no ISO date: '' and a text such as 'TBD'
NoDate  == [y |-> 0, m |-> 0, d |-> 0]
BadDate == [y |-> 0, m |-> 0, d |-> 1]

\* datetime.fromisoformat(ds) succeeds
IsIsoDate(ds) == ds.y > 0

\* _is_supported_recurring_pattern
IsSupportedRecurringPattern(pattern) ==
    IF pattern = NULL \/ pattern = <<>> THEN FALSE
    ELSE \E f \in Families : HasPhrase(Lower(pattern), f)

\* the typo fix applied to a title
FixTypo(title) ==
    [i \in 1..Len(title) |->
        IF title[i] \in {"Galentine's", "galentine's"} THEN "Valentine's" ELSE title[i]]

ListingUrl == "https://valdostacity.com/calendar"
UrlExt     == "https://example.org/art-walk"
UrlVcEvent == "https://valdostacity.com/event/art-walk"
UrlVcPage  == "https://valdostacity.com/parks"

\* "valdostacity.com" in url
MentionsValdostaCity(u) == u \in {ListingUrl, UrlVcEvent, UrlVcPage}
\* "/event/" in url
MentionsEventPath(u) == u \in {UrlVcEvent}

\* x or default
OrDefault(x, default) == IF x = NULL \/ x = <<>> THEN default ELSE x

\* Stage 1: one event of the extraction service's JSON array becomes an item
Stage1Item(event, process_url) ==
    LET event_url == IF event.url = "" THEN process_url ELSE event.url
        needs_stage2 ==
            /\ event_url # process_url
            /\ event_url # ""
            /\ (~MentionsValdostaCity(event_url) \/ MentionsEventPath(event_url))
    IN  [title |-> event.title, url |-> event_url, has_external_url |-> needs_stage2,
         date |-> event.date, time |-> OrDefault(event.time, T1900),
         description |-> "", recurring_pattern |-> event.recurring_pattern]

\* dedup_key = f"{event_title.lower().strip()}_{event_date}"
Stage1Key(item) == <<Lower(item.title), item.date>>

\* the indices of event_urls that survive "if dedup_key in seen_keys: continue"
Stage1Kept(items) ==
    { i \in 1..Len(items) :
        \A j \in 1..(i - 1) : Stage1Key(items[j]) # Stage1Key(items[i]) }

\* the indices of a set, in increasing order
RECURSIVE SortedSeq(_)
SortedSeq(S) ==
    IF S = {} THEN <<>>
    ELSE LET m == CHOOSE x \in S : \A z \in S : x <= z
         IN  <<m>> \o SortedSeq(S \ {m})

\* the entry built from the listing date and time of an item, or none
\* (fromisoformat raised, or the date is past and the pattern not supported)
ListingEntry(item, now) ==
    IF ~IsIsoDate(item.date) THEN <<>>
    ELSE IF DateGE(item.date, now) \/ IsSupportedRecurringPattern(item.recurring_pattern)
         THEN <<[title |-> FixTypo(item.title), url |-> item.url,
                 description |-> item.description,
                 start |-> MkStart(item.date, ValidTime(item.time)),
                 allDay |-> FALSE, recurring_pattern |-> item.recurring_pattern]>>
         ELSE <<>>

\* an item without a detail URL
NoUrlEntry(item, now) == ListingEntry(item, now)

\* except requests.exceptions.HTTPError
HttpErrorFallback(item, now) ==
    IF item.date # NoDate THEN ListingEntry(item, now) ELSE <<>>

\* except requests.exceptions.Timeout
TimeoutFallback_Drop(item, now) == <<>>

TimeoutFallback(item, now) ==
    IF item.date # NoDate THEN ListingEntry(item, now) ELSE <<>>

\* "for event in events_without_external_urls": the entries and their items
RECURSIVE NoUrlEntries(_, _, _)
NoUrlEntries(items, ixs, now) ==
    IF ixs = <<>> THEN [entries |-> <<>>, items |-> <<>>]
    ELSE LET e    == NoUrlEntry(items[Head(ixs)], now)
             rest == NoUrlEntries(items, Tail(ixs), now)
         IN  [entries |-> e \o rest.entries,
              items   |-> (IF e = <<>> THEN <<>> ELSE <<Head(ixs)>>) \o rest.items]

\* if status in ['cancelled', 'postponed']: continue
IsDropped_CancelledOnly(status) == status = "cancelled"

IsDropped(status) == status \in {"cancelled", "postponed"}

\* the same without the branch "elif not dates"
Stage2Parsed_NoFallback(item, resp, now) ==
    LET title0 == IF resp.corrected_title # <<>> /\ resp.corrected_title # NULL
                  THEN resp.corrected_title ELSE item.title
        event_title == FixTypo(title0)
        is_internal_valdosta == MentionsValdostaCity(item.url) /\ MentionsEventPath(item.url)
        use_listing == is_internal_valdosta /\ item.date # NoDate
        dates == IF use_listing THEN <<item.date>> ELSE resp.dates
        time0 == IF use_listing THEN item.time ELSE resp.time
        description ==
            IF ~is_internal_valdosta /\ resp.dates = <<>> /\ resp.description = ""
            THEN item.description ELSE resp.description
        is_recurring == IsSupportedRecurringPattern(resp.recurring_pattern)
        Keep(ds) == IsIsoDate(ds) /\ (DateGE(ds, now) \/ is_recurring)
        kept == SelectSeq(dates, Keep)
    IN  IF IsDropped(resp.status)
        THEN [end |-> "skipped", entries |-> <<>>]
        ELSE IF dates = <<>>
        THEN [end |-> "skipped", entries |-> <<>>]
        ELSE IF time0 = NULL
        THEN [end |-> "raised", entries |-> <<>>]
        ELSE [end |-> "ok",
              entries |-> [i \in 1..Len(kept) |->
                  [title |-> event_title, url |-> item.url,
                   description |-> description,
                   start |-> MkStart(kept[i], ValidTime(time0)),
                   allDay |-> FALSE,
                   recurring_pattern |-> resp.recurring_pattern]]]

\* Stage 2, the JSON object parsed: the entries for one item, and whether the
\* iteration runs on to the pause ("ok"), is cut short by "continue"
\* ("skipped") or raises ("raised": re.match on a time that is None)
Stage2Parsed(item, resp, now) ==
    LET title0 == IF resp.corrected_title # <<>> /\ resp.corrected_title # NULL
                  THEN resp.corrected_title ELSE item.title
        event_title == FixTypo(title0)
        is_internal_valdosta == MentionsValdostaCity(item.url) /\ MentionsEventPath(item.url)
        use_listing == (is_internal_valdosta /\ item.date # NoDate)
                       \/ (resp.dates = <<>> /\ item.date # NoDate)
        dates == IF use_listing THEN <<item.date>> ELSE resp.dates
        time0 == IF use_listing THEN item.time ELSE resp.time
        description ==
            IF ~is_internal_valdosta /\ resp.dates = <<>> /\ resp.description = ""
            THEN item.description ELSE resp.description
        is_recurring == IsSupportedRecurringPattern(resp.recurring_pattern)
        Keep(ds) == IsIsoDate(ds) /\ (DateGE(ds, now) \/ is_recurring)
        kept == SelectSeq(dates, Keep)
    IN  IF IsDropped(resp.status)
        THEN [end |-> "skipped", entries |-> <<>>]
        ELSE IF dates = <<>>
        THEN [end |-> "skipped", entries |-> <<>>]
        ELSE IF time0 = NULL
        THEN [end |-> "raised", entries |-> <<>>]
        ELSE [end |-> "ok",
              entries |-> [i \in 1..Len(kept) |->
                  [title |-> event_title, url |-> item.url,
                   description |-> description,
                   start |-> MkStart(kept[i], ValidTime(time0)),
                   allDay |-> FALSE,
                   recurring_pattern |-> resp.recurring_pattern]]]

\* dedup_key = f"{event_url}_{event_date}_{event_title}" (titles of the model
\* are shorter than 50 characters)
FinalKey(e) == <<e.url, e.start.date, Lower(e.title)>>

\* the indices of all_results kept by the final deduplication
FinalKept(entries) ==
    { i \in 1..Len(entries) :
        \A j \in 1..(i - 1) : FinalKey(entries[j]) # FinalKey(entries[i]) }

(***************************************************************************)
(* Specification SpecTwoStage                                              *)
(***************************************************************************)
Past   == MkDate(2026, 2, 1)
Future == MkDate(2026, 3, 15)
Later  == MkDate(2026, 4, 10)

T1830 == <<"1", "8", ":", "3", "0">>
T7pm  == <<"7", "p", "m">>

FirstFridayText == <<"first", "friday", "of", "each", "month">>

RawEvent(title, url, date, time, pattern) ==
    [title |-> title, url |-> url, date |-> date, time |-> time,
     recurring_pattern |-> pattern]

\* what the extraction service may return for the listing page
ListingEvents ==
    { RawEvent(<<"Art", "Walk">>, UrlExt, Future, T1800, <<>>),
      RawEvent(<<"Art", "Walk">>, UrlExt, Past, T7pm, FirstFridayText),
      RawEvent(<<"Art", "Walk">>, UrlExt, NoDate, NULL, NULL),
      RawEvent(<<"First", "Friday", "Market">>, UrlVcEvent, Future, T1800, <<>>),
      RawEvent(<<"Board", "Meeting">>, "", Past, T1800, <<>>),
      RawEvent(<<"First", "Friday", "Market">>, "", Past, T1800, <<>>),
      RawEvent(<<"Board", "Meeting">>, UrlVcPage, Future, T7pm, <<"3rd", "Tuesday">>) }

Response(status, dates, time, description, corrected, pattern) ==
    [status |-> status, dates |-> dates, time |-> time, description |-> description,
     corrected_title |-> corrected, recurring_pattern |-> pattern]

\* what the extraction service may return for a detail page
DetailResponses ==
    { Response("active", <<Later>>, T1830, "Live music", <<>>, <<>>),
      Response("cancelled", <<Later>>, T1830, "Cancelled", <<"Gallery", "Walk">>, <<>>),
      Response("postponed", <<>>, T1830, "", <<>>, <<>>),
      Response("unknown", <<>>, NULL, "", <<"Gallery", "Walk">>, <<>>),
      Response("active", <<>>, T1830, "", <<>>, FirstFridayText),
      Response("active", <<Past, Later>>, T7pm, "", <<>>, FirstFridayText),
      Response("active", <<Past>>, T1830, "", <<>>, <<>>) }

InitTwoStage ==
    /\ pc = "stage1"
    /\ today = MkDate(2026, 2, 7)
    /\ heap = <<>> /\ origin = <<>> /\ results = <<>> /\ expanded = <<>>
    /\ event_urls = <<>> /\ with_url = <<>> /\ all_results = <<>>
    /\ made_for = <<>> /\ idx = 0 /\ stage2 = <<>> /\ log = <<>>
    /\ site = 0 /\ all_events = <<>> /\ attractions = <<>>
    /\ client = NULL /\ user_query = <<>>
    /\ source_type = "events" /\ cur_item = <<>>
    /\ arg = <<>> /\ ret = <<>> /\ req = <<>> /\ sources_file = <<>>
    /\ returned = <<>>

\* Stage 1, "for event in extracted_events": one more item of the listing page
Stage1Extract(event) ==
    /\ pc = "stage1"
    /\ Len(event_urls) < MaxItems
    /\ event_urls' = Append(event_urls, Stage1Item(event, ListingUrl))
    /\ UNCHANGED <<pc, today, with_url, all_results, made_for, idx, stage2, log, returned>>
    /\ UNCHANGED exVars /\ UNCHANGED geVars /\ UNCHANGED spVars /\ UNCHANGED puVars /\ UNCHANGED rqVars

\* the partition of the Stage-1 items and the entries of those without a
\* detail URL
Partition ==
    /\ pc = "stage1"
    /\ LET kept    == Stage1Kept(event_urls)
           withs   == { i \in kept : event_urls[i].has_external_url }
           nourl   == NoUrlEntries(event_urls, SortedSeq(kept \ withs), today)
       IN  /\ with_url' = SortedSeq(withs)
           /\ all_results' = nourl.entries
           /\ made_for' = nourl.items
    /\ idx' = 1
    /\ pc' = "stage2"
    /\ UNCHANGED <<today, event_urls, stage2, log, returned>>
    /\ UNCHANGED exVars /\ UNCHANGED geVars /\ UNCHANGED spVars /\ UNCHANGED puVars /\ UNCHANGED rqVars

Stage2Frame ==
    /\ UNCHANGED <<pc, today, event_urls, with_url, returned>>
    /\ UNCHANGED exVars /\ UNCHANGED geVars /\ UNCHANGED spVars /\ UNCHANGED puVars /\ UNCHANGED rqVars

Emit(entries) ==
    /\ all_results' = all_results \o entries
    /\ made_for' = made_for \o [i \in 1..Len(entries) |-> with_url[idx]]

\* except requests.exceptions.HTTPError: the listing-date fallback
Stage2HttpError ==
    /\ pc = "stage2" /\ idx <= Len(with_url)
    /\ Emit(HttpErrorFallback(event_urls[with_url[idx]], today))
    /\ stage2' = Append(stage2, [kind |-> "http_error"])
    /\ log' = Append(log, "fetch")
    /\ idx' = idx + 1
    /\ Stage2Frame

\* except requests.exceptions.Timeout: the listing-date fallback
Stage2Timeout ==
    /\ pc = "stage2" /\ idx <= Len(with_url)
    /\ Emit(TimeoutFallback(event_urls[with_url[idx]], today))
    /\ stage2' = Append(stage2, [kind |-> "timeout"])
    /\ log' = Append(log, "fetch")
    /\ idx' = idx + 1
    /\ Stage2Frame

\* except Exception: a connection error of the fetch, or an error of the
\* extraction service
Stage2OtherError(kind) ==
    /\ pc = "stage2" /\ idx <= Len(with_url)
    /\ Emit(<<>>)
    /\ stage2' = Append(stage2, [kind |-> kind])
    /\ log' = Append(log, "fetch")
    /\ idx' = idx + 1
    /\ Stage2Frame

\* except json.JSONDecodeError: continue
Stage2BadJson ==
    /\ pc = "stage2" /\ idx <= Len(with_url)
    /\ Emit(<<>>)
    /\ stage2' = Append(stage2, [kind |-> "bad_json"])
    /\ log' = Append(log, "fetch")
    /\ idx' = idx + 1
    /\ Stage2Frame

\* the detail page fetched and the response parsed
Stage2Response(resp) ==
    /\ pc = "stage2" /\ idx <= Len(with_url)
    /\ \E r \in {Stage2Parsed(event_urls[with_url[idx]], resp, today)} :
           /\ Emit(r.entries)
           /\ stage2' = Append(stage2, [kind |-> "response", resp |-> resp, end |-> r.end])
           /\ log' = IF r.end = "ok" /\ idx < Len(with_url)
                     THEN log \o <<"fetch", "sleep">>
                     ELSE Append(log, "fetch")
    /\ idx' = idx + 1
    /\ Stage2Frame

\* the final deduplication and the expansion; the list is returned
Finish ==
    /\ pc = "stage2" /\ idx > Len(with_url)
    /\ \E kept \in {SortedSeq(FinalKept(all_results))} :
       \E r \in {ExpandRecurringEvents([i \in 1..Len(kept) |-> all_results[kept[i]]],
                                       Identity(Len(kept)), Identity(Len(kept)),
                                       today)} :
          /\ heap' = r.heap
          /\ origin' = r.origin
          /\ results' = Identity(Len(kept))
          /\ expanded' = r.out
    /\ returned' = [i \in 1..Len(expanded') |-> heap'[expanded'[i]]]
    /\ pc' = "done"
    /\ UNCHANGED <<today>>
    /\ UNCHANGED tsVars /\ UNCHANGED geVars /\ UNCHANGED spVars /\ UNCHANGED puVars /\ UNCHANGED rqVars

NextTwoStage ==
    \/ \E event \in ListingEvents : Stage1Extract(event)
    \/ Partition
    \/ Stage2HttpError
    \/ Stage2Timeout
    \/ \E kind \in {"connection_error", "extraction_service_error"} :
          Stage2OtherError(kind)
    \/ Stage2BadJson
    \/ \E resp \in DetailResponses : Stage2Response(resp)
    \/ Finish

SpecTwoStage == InitTwoStage /\ [][NextTwoStage]_vars

(***************************************************************************)
(* Claims about the Two-Stage Resolver (checked under SpecTwoStage).       *)
(***************************************************************************)
\* the Stage-1 item of the k-th Stage-2 iteration
ItemOf(k) == event_urls[with_url[k]]

\* the listing date of an item is present and passes the past-date rule
HasValidFallback(item) ==
    /\ item.date # NoDate /\ item.date # BadDate
    /\ LexGE(item.date, today) \/ IsSupportedRecurringPattern(item.recurring_pattern)

\* the start made of the listing date and the listing time of an item (the
\* default 19:00 standing in for a listing time that is not HH:MM)
ListingStart(item) ==
    [date |-> item.date,
     time |-> (IF MatchesHHMM(item.time) THEN item.time ELSE T1900) \o Secs]

\* the resolver has emitted, for the item of iteration k, an entry with the
\* item's URL and its listing date and time
FallbackEmitted(k) ==
    \E j \in 1..Len(all_results) :
        /\ made_for[j] = with_url[k]
        /\ all_results[j].url = ItemOf(k).url
        /\ all_results[j].start = ListingStart(ItemOf(k))

\* the item of iteration k is not lost from the returned list: an entry with
\* its URL and title is returned, dated with the listing date and time unless
\* the entry is a recurring seed, which the expander re-dates
NotDropped(k) ==
    \E i \in 1..Len(returned) :
        /\ returned[i].url = ItemOf(k).url
        /\ returned[i].title = FixTypo(ItemOf(k).title)
        /\ \/ returned[i].start = ListingStart(ItemOf(k))
           \/ \E f \in Families : HasPhrase(SearchText(returned[i]), f)

\* C2: after a detail fetch that timed out, an item whose listing date is
\* present and passes the past-date rule has an entry with the listing date
\* and time, and the item is not missing from the returned list.
C2_TimeoutFallback ==
    \A k \in 1..Len(stage2) :
        (stage2[k].kind = "timeout" /\ HasValidFallback(ItemOf(k))) =>
            /\ FallbackEmitted(k)
            /\ pc = "done" => NotDropped(k)

C2_Witness ==
    /\ pc = "done"
    /\ \E k \in 1..Len(stage2) :
          /\ stage2[k].kind = "timeout"
          /\ HasValidFallback(ItemOf(k))
          /\ \E i \in 1..Len(returned) :
                /\ returned[i].url = ItemOf(k).url
                /\ returned[i].start = ListingStart(ItemOf(k))

\* the entries emitted by Stage 2 for the item of iteration k
EntriesFor(k) == { j \in 1..Len(all_results) : made_for[j] = with_url[k] }

\* the Stage-2 response of iteration k was parsed, is neither cancelled nor
\* postponed, and has no dates
EmptyDates(k) ==
    /\ stage2[k].kind = "response"
    /\ stage2[k].resp.status \notin {"cancelled", "postponed"}
    /\ stage2[k].resp.dates = <<>>

\* C22: for a Stage-2 response without dates, an item with a listing date
\* has exactly one entry, with the listing date and time, when that date
\* passes the past-date rule (not past, or the entry's pattern is a supported
\* recurring one) and none when it does not; an item without a listing date
\* has no entry.
C22_EmptyDatesFallback ==
    \A k \in 1..Len(stage2) :
        EmptyDates(k) =>
            /\ ItemOf(k).date = NoDate => EntriesFor(k) = {}
            /\ IsIsoDate(ItemOf(k).date) =>
                  IF \/ LexGE(ItemOf(k).date, today)
                     \/ IsSupportedRecurringPattern(stage2[k].resp.recurring_pattern)
                  THEN \E j \in 1..Len(all_results) :
                          /\ EntriesFor(k) = {j}
                          /\ all_results[j].url = ItemOf(k).url
                          /\ all_results[j].start = ListingStart(ItemOf(k))
                  ELSE EntriesFor(k) = {}

\* responses without dates were given for an item with a past listing date,
\* which the recurring pattern of the response kept, and for an item without
\* a listing date, which has no entry
C22_Witness ==
    /\ \E k \in 1..Len(stage2) :
          /\ EmptyDates(k) /\ IsIsoDate(ItemOf(k).date) /\ ~LexGE(ItemOf(k).date, today)
          /\ EntriesFor(k) # {}
    /\ \E k \in 1..Len(stage2) :
          /\ EmptyDates(k) /\ ItemOf(k).date = NoDate
          /\ stage2[k].resp.corrected_title # <<>>
          /\ EntriesFor(k) = {}

\* the key of the final deduplication, of a returned entry (the titles of
\* the model are shorter than 50 characters)
ReturnedKey(i) == <<returned[i].url, returned[i].start.date, Lower(returned[i].title)>>

\* C26: the returned list never holds two entries with the same url, date
\* and lower-cased title.
C26_NoDuplicateReturned ==
    pc = "done" =>
        \A i, j \in 1..Len(returned) : i # j => ReturnedKey(i) # ReturnedKey(j)

\* the entries left by the final deduplication have pairwise different keys
FinalDedupDistinct ==
    \A i, j \in FinalKept(all_results) :
        i # j => FinalKey(all_results[i]) # FinalKey(all_results[j])

Stage2Failures ==
    {"http_error", "timeout", "connection_error", "extraction_service_error", "bad_json"}

\* C3: after any Stage-2 failure (HTTP error, timeout, connection error,
\* extraction-service error, malformed JSON), an item whose listing date is
\* present and passes the past-date rule has an entry with the listing date
\* and time.
C3_AnyFailureFallback ==
    \A k \in 1..Len(stage2) :
        (stage2[k].kind \in Stage2Failures /\ HasValidFallback(ItemOf(k))) =>
            FallbackEmitted(k)

\* C4: every detail-page fetch after the first comes right after a pause.
C4_PauseBetweenFetches ==
    \A i \in 2..Len(log) : log[i] = "fetch" => log[i - 1] = "sleep"

\* the Stage-1 item the i-th returned entry was made for
ReturnedFor(i) == made_for[SortedSeq(FinalKept(all_results))[origin[expanded[i]]]]

\* C5: an item whose Stage-2 response reports cancelled or postponed has no
\* entry, neither among the entries emitted nor in the returned list.
C5_CancelledDropped ==
    \A k \in 1..Len(stage2) :
        (stage2[k].kind = "response"
            /\ stage2[k].resp.status \in {"cancelled", "postponed"}) =>
            /\ \A j \in 1..Len(all_results) : made_for[j] # with_url[k]
            /\ pc = "done" =>
                  \A i \in 1..Len(returned) : ReturnedFor(i) # with_url[k]

C5_Witness ==
    /\ pc = "done"
    /\ Len(returned) > 0
    /\ \E k \in 1..Len(stage2) :
          /\ stage2[k].kind = "response"
          /\ stage2[k].resp.status = "cancelled"
          /\ stage2[k].resp.dates # <<>>
          /\ stage2[k].resp.corrected_title # <<>>
          /\ HasValidFallback(ItemOf(k))

\* _expand_recurring_events would expand an entry with this title and pattern
WouldExpand(title, pattern) ==
    \E f \in Families : HasPhrase(Lower(title) \o Lower(OrEmpty(pattern)), f)

\* the Stage-1 item k is emitted from its listing date, which is past
PastListingSeed(k) ==
    /\ k \in Stage1Kept(event_urls) /\ ~event_urls[k].has_external_url
    /\ IsIsoDate(event_urls[k].date) /\ ~LexGE(event_urls[k].date, today)

\* C28: the past-date test exempts an item as recurring exactly when the
\* expander would expand the entry made of it; a past-dated item whose title
\* carries a recognized phrase has its entry and is expanded in the returned
\* list.
C28_RecurringAgreement ==
    /\ \A k \in 1..Len(event_urls) :
          IsSupportedRecurringPattern(event_urls[k].recurring_pattern)
              <=> WouldExpand(FixTypo(event_urls[k].title), event_urls[k].recurring_pattern)
    /\ pc = "done" =>
          \A k \in 1..Len(event_urls) :
              (PastListingSeed(k)
                   /\ WouldExpand(FixTypo(event_urls[k].title), event_urls[k].recurring_pattern))
              => \E i \in 1..Len(returned) :
                     /\ returned[i].title = FixTypo(event_urls[k].title)
                     /\ returned[i].url = event_urls[k].url

\* a past-dated item whose recurring_pattern field carries a recognized
\* phrase is expanded in the returned list
PatternSeedsReachExpander ==
    pc = "done" =>
        \A k \in 1..Len(event_urls) :
            (PastListingSeed(k)
                 /\ IsSupportedRecurringPattern(event_urls[k].recurring_pattern))
            => \E i \in 1..Len(returned) :
                   /\ returned[i].title = FixTypo(event_urls[k].title)
                   /\ returned[i].url = event_urls[k].url

\* a past-dated item whose title alone carries a recognized phrase has no
\* entry in the returned list
TitleSeedsDropped ==
    pc = "done" =>
        \A k \in 1..Len(event_urls) :
            (PastListingSeed(k)
                 /\ ~IsSupportedRecurringPattern(event_urls[k].recurring_pattern))
            => \A i \in 1..Len(returned) : ReturnedFor(i) # k

----------------------------------------------------------------------------
\* generate_events (main.py): the sites in turn, the chat fallback, the sort

FallbackThreshold == 5
MaxDay == 28
MaxGpt == 2

EventSites == {1, 2}
NumSites == 5

UrlB == "https://example.com/b"

MonthNames == <<"january", "february", "march", "april", "may", "june", "july",
                "august", "september", "october", "november", "december">>

\* datetime.strptime(month_name, "%B").month
MonthNumber(w) == CHOOSE k \in 1..12 : MonthNames[k] = LowerWord(w)

IsMonthName(w) == \E k \in 1..12 : MonthNames[k] = LowerWord(w)

\* int() of a word of exactly the four digits the pattern asks for, 0 otherwise
YearValue(w) ==
    CASE w = "2026" -> 2026
      [] w = "2027" -> 2027
      [] OTHER      -> 0

\* re.search(r'(January|...|December)\s+(\d{4})', user_query, re.I): the first
\* month name directly followed by a year (<<>> when there is none)
RECURSIVE MonthYearMatch(_)
MonthYearMatch(q) ==
    IF Len(q) < 2 THEN <<>>
    ELSE IF IsMonthName(q[1]) /\ YearValue(q[2]) > 0
         THEN <<[month |-> MonthNumber(q[1]), year |-> YearValue(q[2])]>>
         ELSE MonthYearMatch(Tail(q))

\* the month and year the fallback dates its events in
TargetMonth(q, now) ==
    IF MonthYearMatch(q) # <<>>
    THEN MonthYearMatch(q)[1]
    ELSE [month |-> now.m, year |-> now.y]

Min(a, b) == IF a < b THEN a ELSE b

\* one event of the chat answer, given its position idx (from 0)
GptEntry(ev, i, target) ==
    Entry(ev.title, ev.url, <<>>,
          MkStart(MkDate(target.year, target.month, Min(i + 1, MaxDay)),
                  IF ev.time = NULL THEN <<"1", "2", ":", "0", "0">> ELSE ev.time),
          NULL)

GptEntries(gpt_events, target) ==
    [k \in 1..Len(gpt_events) |-> GptEntry(gpt_events[k], k - 1, target)]

\* order of the characters the start strings are made of
CharRank(c) ==
    CASE c \in Digits -> 1 + (CHOOSE k \in 0..9 : <<"0", "1", "2", "3", "4", "5", "6",
                                                     "7", "8", "9">>[k + 1] = c)
      [] c = ":"      -> 11
      [] OTHER        -> 12

RECURSIVE StrLE(_, _)
StrLE(a, b) ==
    IF a = <<>> THEN TRUE
    ELSE IF b = <<>> THEN FALSE
    ELSE IF CharRank(Head(a)) # CharRank(Head(b))
         THEN CharRank(Head(a)) < CharRank(Head(b))
         ELSE StrLE(Tail(a), Tail(b))

\* x["start"] <= y["start"] as strings "YYYY-MM-DDTHH:MM:SS"
StartLE(x, y) ==
    IF x.start.date # y.start.date
    THEN ~LexGE(x.start.date, y.start.date)
    ELSE StrLE(x.start.time, y.start.time)

RECURSIVE InsertByStart(_, _)
InsertByStart(s, e) ==
    IF s = <<>> THEN <<e>>
    ELSE IF StartLE(Head(s), e)
         THEN <<Head(s)>> \o InsertByStart(Tail(s), e)
         ELSE <<e>> \o s

\* list.sort(key=lambda x: x["start"]): stable
RECURSIVE SortByStart(_)
SortByStart(s) ==
    IF s = <<>> THEN <<>>
    ELSE InsertByStart(SortByStart(SubSeq(s, 1, Len(s) - 1)), s[Len(s)])

\* scrape_site's closing filter: entries dated before today are left out
RECURSIVE FilterPast(_, _)
FilterPast(events, now) ==
    IF events = <<>> THEN <<>>
    ELSE (IF LexGE(Head(events).start.date, now) THEN <<Head(events)>> ELSE <<>>)
         \o FilterPast(Tail(events), now)

SiteKey(e) == <<Lower(e.title), e.start>>

\* scrape_site's closing deduplication: first entry of each (title, start)
SiteKept(events) ==
    { i \in 1..Len(events) :
        \A j \in 1..(i - 1) : SiteKey(events[j]) # SiteKey(events[i]) }

ScrapeSiteTail(events, now) ==
    LET f == FilterPast(events, now)
    IN  [k \in 1..Cardinality(SiteKept(f)) |-> f[SortedSeq(SiteKept(f))[k]]]

\* --- the runs of generate_events ---

GenDays == {MkDate(2026, 2, 1), MkDate(2026, 2, 7), MkDate(2026, 3, 31)}

Queries == { <<"family", "events">>,
             <<"events", "in", "March", "2026">>,
             <<"January", "2026", "concerts">>,
             <<"MAY", "2027">>,
             <<"March", "concerts">> }

SiteUrl(n) == IF n = 1 THEN UrlA ELSE UrlB

\* what the handler of an event site can read off its page, before the filter
PageEvents(n) ==
    << Entry(<<"Art", "Walk">>, SiteUrl(n), <<>>, MkStart(Past, T1800), NULL),
       Entry(<<"Board", "Meeting">>, SiteUrl(n), <<>>, MkStart(MkDate(2026, 2, 7), T1900), NULL),
       Entry(<<"Market">>, SiteUrl(n), <<>>, MkStart(Future, T1000), NULL),
       Entry(<<"market">>, SiteUrl(n), <<>>, MkStart(Future, T1000), NULL) >>

\* f"{h:02d}"
TwoDigits(h) ==
    LET ds == <<"0", "1", "2", "3", "4", "5", "6", "7", "8", "9">>
    IN  <<ds[(h \div 10) + 1], ds[(h % 10) + 1]>>

\* f"{random.randint(lo, hi):02d}:00"
HourString(h) == TwoDigits(h) \o <<":", "0", "0">>

\* the hours random.randint(10, 16) is taken to give for a museum
MuseumHours == {10, 16}

\* an attraction is dated with the day of the run, at a random hour of the
\* range of its kind
PageAttractions(n, now, h) ==
    << Entry(<<"Museum">>, SiteUrl(n), <<>>, MkStart(now, HourString(h)), NULL) >>

\* the hours the five random.randint calls of the fallback list are taken to give
FallbackHours == { <<9, 9, 10, 9, 8>>, <<17, 9, 16, 21, 18>> }

\* one entry of the fallback list: "start" is f"{today}T{hour:02d}:00"
FallbackAttraction(title, now, h) ==
    Entry(title, UrlB, <<>>, [date |-> now, time |-> HourString(h)], NULL)

\* get_fallback_tripadvisor_attractions
GetFallbackTripadvisorAttractions(now, hours) ==
    << FallbackAttraction(<<"Visit:", "Wild", "Adventures">>, now, hours[1]),
       FallbackAttraction(<<"Visit:", "Valdosta", "State", "University">>, now, hours[2]),
       FallbackAttraction(<<"Visit:", "Historical", "Society", "Museum">>, now, hours[3]),
       FallbackAttraction(<<"Visit:", "Valdosta", "Mall">>, now, hours[4]),
       FallbackAttraction(<<"Visit:", "Grand", "Bay">>, now, hours[5]) >>

\* the entries of page at the positions in S, in page order
Picked(page, S) == [k \in 1..Cardinality(S) |-> page[SortedSeq(S)[k]]]

GptEvent(title, time) == [title |-> title, url |-> UrlA, time |-> time]

GptEvents == { GptEvent(<<"Concert">>, T1830), GptEvent(<<"Fair">>, NULL) }

GptAnswers == UNION { [1..n -> GptEvents] : n \in 0..MaxGpt }

InitGenerate ==
    /\ pc = "sites"
    /\ today \in GenDays
    /\ client \in {NULL, <<"OpenAI">>}
    /\ user_query \in Queries
    /\ site = 0 /\ all_events = <<>> /\ attractions = <<>>
    /\ heap = <<>> /\ origin = <<>> /\ results = <<>> /\ expanded = <<>>
    /\ event_urls = <<>> /\ with_url = <<>> /\ all_results = <<>>
    /\ made_for = <<>> /\ idx = 0 /\ stage2 = <<>> /\ log = <<>>
    /\ source_type = "events" /\ cur_item = <<>>
    /\ arg = <<>> /\ ret = <<>> /\ req = <<>> /\ sources_file = <<>>
    /\ returned = <<>>

GenFrame ==
    /\ UNCHANGED <<today, client, user_query>>
    /\ UNCHANGED exVars /\ UNCHANGED tsVars /\ UNCHANGED spVars /\ UNCHANGED puVars /\ UNCHANGED rqVars

\* the loop body for a site handled as events
ScrapeEventSite(S) ==
    /\ pc = "sites" /\ site < NumSites /\ site + 1 \in EventSites
    /\ site' = site + 1
    /\ all_events' = all_events \o ScrapeSiteTail(Picked(PageEvents(site + 1), S), today)
    /\ UNCHANGED <<pc, attractions, returned>>
    /\ GenFrame

\* the loop body for a site handled as attractions
ScrapeAttractionSite(S, h) ==
    /\ pc = "sites" /\ site < NumSites /\ site + 1 \notin EventSites
    /\ site' = site + 1
    /\ attractions' = attractions
           \o ScrapeSiteTail(Picked(PageAttractions(site + 1, today, h), S), today)
    /\ UNCHANGED <<pc, all_events, returned>>
    /\ GenFrame

\* the loop body for the last site when its page cannot be fetched:
\* scrape_site returns the fallback list as it is
ScrapeTripAdvisorBlocked(hours) ==
    /\ pc = "sites" /\ site + 1 = NumSites
    /\ site' = site + 1
    /\ attractions' = attractions \o GetFallbackTripadvisorAttractions(today, hours)
    /\ UNCHANGED <<pc, all_events, returned>>
    /\ GenFrame

NeedsFallback == Len(all_events) < FallbackThreshold /\ client # NULL

\* the chat answer parsed: its events are dated by position and appended
GptFallback(answer) ==
    /\ pc = "sites" /\ site = NumSites /\ NeedsFallback
    /\ all_events' = all_events \o GptEntries(answer, TargetMonth(user_query, today))
    /\ pc' = "sort"
    /\ UNCHANGED <<site, attractions, returned>>
    /\ GenFrame

\* the chat call or the parse of its answer raised: nothing is appended
GptFailure ==
    /\ pc = "sites" /\ site = NumSites /\ NeedsFallback
    /\ pc' = "sort"
    /\ UNCHANGED <<site, all_events, attractions, returned>>
    /\ GenFrame

\* enough events, or no client
SkipFallback ==
    /\ pc = "sites" /\ site = NumSites /\ ~NeedsFallback
    /\ pc' = "sort"
    /\ UNCHANGED <<site, all_events, attractions, returned>>
    /\ GenFrame

\* the sort and the return
ReturnEvents ==
    /\ pc = "sort"
    /\ all_events' = SortByStart(all_events)
    /\ returned' = all_events'
    /\ pc' = "done"
    /\ UNCHANGED <<site, attractions>>
    /\ GenFrame

NextGenerate ==
    \/ \E S \in SUBSET (1..4) : ScrapeEventSite(S)
    \/ \E S \in SUBSET (1..1), h \in MuseumHours : ScrapeAttractionSite(S, h)
    \/ \E hours \in FallbackHours : ScrapeTripAdvisorBlocked(hours)
    \/ \E answer \in GptAnswers : GptFallback(answer)
    \/ GptFailure
    \/ SkipFallback
    \/ ReturnEvents

SpecGenerate == InitGenerate /\ [][NextGenerate]_vars

\* C1: every entry a finished run gives back that carries no recognized
\* recurring pattern has a start date on or after the day of the run.
C1_PastDateInvariant ==
    pc = "done" =>
        /\ \A i \in 1..Len(returned) :
              NamedFamilies(returned[i]) = {} => LexGE(returned[i].start.date, today)
        /\ \A i \in 1..Len(attractions) :
              NamedFamilies(attractions[i]) = {} => LexGE(attractions[i].start.date, today)
\* the characters after the "T" of a start read HH:MM:SS
IsClockForm(t) ==
    /\ Len(t) = 8
    /\ \A i \in {1, 2, 4, 5, 7, 8} : t[i] \in Digits
    /\ t[3] = ":" /\ t[6] = ":"

\* a start reads YYYY-MM-DDTHH:MM:SS
IsStartForm(st) == st.date.y \in 1000..9999 /\ IsClockForm(st.time)

\* C15: every entry a finished run gives back, event or attraction, has a
\* start of the exact form YYYY-MM-DDTHH:MM:SS.
C15_StartForm ==
    pc = "done" =>
        /\ \A i \in 1..Len(returned) : IsStartForm(returned[i].start)
        /\ \A i \in 1..Len(attractions) : IsStartForm(attractions[i].start)

\* the starts of a list never decrease from one entry to the next
IsOrderedByStart(list) ==
    \A i \in 1..(Len(list) - 1) : StartLE(list[i], list[i + 1])

\* C16: the list a finished run gives back for each category, events and
\* attractions alike, is ordered non-decreasingly by start.
C16_OrderedByStart ==
    pc = "done" => IsOrderedByStart(returned) /\ IsOrderedByStart(attractions)

\* the events of the response taken alone
EventsOrderedByStart == pc = "done" => IsOrderedByStart(returned)

----------------------------------------------------------------------------
\* scrape_with_ai (generic_scraper.py): one item of the extraction answer
\* is made into an entry

BumpAfterMonths == 2

\* (current_date.year - parsed_date.year) * 12 + (current_date.month - parsed_date.month)
MonthsDiff(cur, parsed) == (cur.y - parsed.y) * 12 + (cur.m - parsed.m)

\* date(y, m, d) exists
IsValidDate(y, m, d) == m \in 1..12 /\ d >= 1 /\ d <= DaysInMonth(y, m)

\* the threshold taken one month too early
NormalizeDate_FromTwo(parsed, cur) ==
    IF parsed = NoDate THEN cur
    ELSE IF MonthsDiff(cur, parsed) >= BumpAfterMonths
         THEN (IF IsValidDate(parsed.y + 1, parsed.m, parsed.d)
               THEN MkDate(parsed.y + 1, parsed.m, parsed.d)
               ELSE cur)
         ELSE parsed

\* the date of an event item: parsed is what dateparser.parse gave (NoDate
\* when it gave None or raised); replace(year=...) raises for a day the next
\* year does not have, and the bare except then takes the current date
NormalizeDate(parsed, cur) ==
    IF parsed = NoDate THEN cur
    ELSE IF MonthsDiff(cur, parsed) > BumpAfterMonths
         THEN (IF IsValidDate(parsed.y + 1, parsed.m, parsed.d)
               THEN MkDate(parsed.y + 1, parsed.m, parsed.d)
               ELSE cur)
         ELSE parsed

\* '19:00' if source_type == 'events' else '10:00'
DefaultTime(st) == IF st = "events" THEN T1900 ELSE T1000

\* item.get('time', default): the key may be absent
Missing == <<"missing">>

TimeOf(it, st) == IF it.time = Missing THEN DefaultTime(st) ELSE it.time

\* if not re.match(r'^\d{2}:\d{2}$', time_str): time_str = default
ValidTimeFor(t, st) == IF MatchesHHMM(t) THEN t ELSE DefaultTime(st)

ResultItem(it, st, cur) ==
    Entry(it.title, it.url, <<>>,
          MkStart(IF st = "events" THEN NormalizeDate(it.date, cur) ELSE cur,
                  ValidTimeFor(TimeOf(it, st), st)),
          NULL)

\* --- the runs ---

T2359 == <<"2", "3", ":", "5", "9">>
T2599 == <<"2", "5", ":", "9", "9">>
T700  == <<"7", ":", "0", "0">>
T1900nl  == <<"1", "9", ":", "0", "0", "\n">>
T1900sec == <<"1", "9", ":", "0", "0", ":", "0", "0">>

ItemTimes == {T1900, T1830, T2359, T2599, T700, T7pm, T1900nl, T1900sec, <<>>,
              Missing, NULL}

CurDates == {MkDate(2026, 2, 6), MkDate(2026, 11, 1), MkDate(2027, 1, 31),
             MkDate(2028, 6, 1)}

ParsedDates ==
    { dt \in [y : 2024..2028, m : 1..12, d : {1, 13, 15, 28, 29, 31}] :
        IsValidDate(dt.y, dt.m, dt.d) }

SourceTypes == {"events", "classes"}

InitSinglePass ==
    /\ pc = "item"
    /\ today \in CurDates
    /\ source_type \in SourceTypes
    /\ cur_item \in [title : {<<"Art", "Walk">>}, url : {UrlA},
                 date : ParsedDates \cup {NoDate}, time : ItemTimes]
    /\ all_results = <<>>
    /\ heap = <<>> /\ origin = <<>> /\ results = <<>> /\ expanded = <<>>
    /\ event_urls = <<>> /\ with_url = <<>>
    /\ made_for = <<>> /\ idx = 0 /\ stage2 = <<>> /\ log = <<>>
    /\ site = 0 /\ all_events = <<>> /\ attractions = <<>>
    /\ client = NULL /\ user_query = <<>>
    /\ arg = <<>> /\ ret = <<>> /\ req = <<>> /\ sources_file = <<>>
    /\ returned = <<>>

SinglePassFrame ==
    /\ UNCHANGED <<today, returned>>
    /\ UNCHANGED <<event_urls, with_url, made_for, idx, stage2, log>>
    /\ UNCHANGED exVars /\ UNCHANGED geVars /\ UNCHANGED spVars /\ UNCHANGED puVars /\ UNCHANGED rqVars

\* the loop body: the entry is appended
ProcessItem ==
    /\ pc = "item" /\ cur_item.time # NULL
    /\ all_results' = Append(all_results, ResultItem(cur_item, source_type, today))
    /\ pc' = "processed"
    /\ SinglePassFrame

\* a null time makes re.match raise: the page's handler logs it, no entry
ProcessItemRaises ==
    /\ pc = "item" /\ cur_item.time = NULL
    /\ pc' = "raised"
    /\ UNCHANGED all_results
    /\ SinglePassFrame

NextSinglePass == ProcessItem \/ ProcessItemRaises

SpecSinglePass == InitSinglePass /\ [][NextSinglePass]_vars

\* --- the claims about the single-pass item step ---

\* the date the entry made from the item carries
ItemDate == all_results[1].start.date

IsEventItemProcessed ==
    pc = "processed" /\ source_type = "events" /\ cur_item.date # NoDate

PlusOneYear(dt) == [dt EXCEPT !.y = @ + 1]

OwnDate(parsed, cur) ==
    IF MonthsDiff(cur, parsed) > 2
    THEN (IF parsed.m = 2 /\ parsed.d = 29 THEN cur ELSE PlusOneYear(parsed))
    ELSE parsed

\* C24: an entry of the category events, classes or meetings made from an
\* item whose date fragment parses carries that item's own date (after the
\* year inference), not the current date of the run.
C24_OwnDateFragment ==
    (/\ pc = "processed" /\ source_type \in {"events", "classes", "meetings"}
     /\ cur_item.date # NoDate)
    => ItemDate = OwnDate(cur_item.date, today)

\* the same for the category events alone
EventsOwnDateFragment ==
    IsEventItemProcessed => ItemDate = OwnDate(cur_item.date, today)

DigitValue(c) ==
    CHOOSE k \in 0..9 : <<"0", "1", "2", "3", "4", "5", "6", "7", "8", "9">>[k + 1] = c

\* a two-digit hour 00-23, a colon, a two-digit minute 00-59
IsStrictHHMM(t) ==
    /\ Len(t) = 5
    /\ t[1] \in Digits /\ t[2] \in Digits /\ t[3] = ":"
    /\ t[4] \in Digits /\ t[5] \in Digits
    /\ 10 * DigitValue(t[1]) + DigitValue(t[2]) <= 23
    /\ 10 * DigitValue(t[4]) + DigitValue(t[5]) <= 59

\* C10: the time of the start of every entry made is a strict 24-hour HH:MM
\* followed by ":00", and a time that is not such a value gives the default
\* of the category.
C10_StrictTime ==
    pc = "processed" =>
        LET tm == all_results[1].start.time
        IN  /\ Len(tm) = 8
            /\ IsStrictHHMM(SubSeq(tm, 1, 5))
            /\ SubSeq(tm, 6, 8) = Secs
            /\ ~IsStrictHHMM(cur_item.time) =>
                   SubSeq(tm, 1, 5) = DefaultTime(source_type)
----------------------------------------------------------------------------
\* _truncate_description (generic_scraper.py), texts as sequences of characters

MaxLength == 150

Whitespace == {" ", "\n", "\t"}

Ellipsis == <<".", ".", ".">>

\* s.rfind(c): the last index (from 0) of c in s, -1 when there is none
RFind(s, c) ==
    IF \E i \in 1..Len(s) : s[i] = c
    THEN (CHOOSE i \in 1..Len(s) : s[i] = c /\ \A j \in (i + 1)..Len(s) : s[j] # c) - 1
    ELSE -1

Max(a, b) == IF a > b THEN a ELSE b

RECURSIVE LStrip(_)
LStrip(s) == IF s # <<>> /\ Head(s) \in Whitespace THEN LStrip(Tail(s)) ELSE s

RECURSIVE RStrip(_)
RStrip(s) ==
    IF s # <<>> /\ s[Len(s)] \in Whitespace THEN RStrip(SubSeq(s, 1, Len(s) - 1)) ELSE s

\* s.strip()
Strip(s) == RStrip(LStrip(s))

\* the sentence end is taken from 60% of the budget on, not past it
TruncateDescription_FromSixty(desc, max_length) ==
    IF Len(desc) <= max_length THEN desc
    ELSE LET truncated == SubSeq(desc, 1, max_length)
             last_period == Max(Max(RFind(truncated, "."), RFind(truncated, "!")),
                                RFind(truncated, "?"))
             last_space == RFind(truncated, " ")
         IN  IF 10 * last_period >= 6 * max_length
             THEN Strip(SubSeq(desc, 1, last_period + 1))
             ELSE IF last_space > 0
                  THEN Strip(SubSeq(truncated, 1, last_space)) \o Ellipsis
                  ELSE truncated \o Ellipsis

\* last_period > max_length * 0.6 is compared in tenths
TruncateDescription(desc, max_length) ==
    IF Len(desc) <= max_length THEN desc
    ELSE LET truncated == SubSeq(desc, 1, max_length)
             last_period == Max(Max(RFind(truncated, "."), RFind(truncated, "!")),
                                RFind(truncated, "?"))
             last_space == RFind(truncated, " ")
         IN  IF 10 * last_period > 6 * max_length
             THEN Strip(SubSeq(desc, 1, last_period + 1))
             ELSE IF last_space > 0
                  THEN Strip(SubSeq(truncated, 1, last_space)) \o Ellipsis
                  ELSE truncated \o Ellipsis

\* --- the calls ---

\* every variable but pc, arg and ret at rest
RestInit ==
    /\ today = MkDate(2026, 2, 7)
    /\ heap = <<>> /\ origin = <<>> /\ results = <<>> /\ expanded = <<>>
    /\ event_urls = <<>> /\ with_url = <<>> /\ all_results = <<>>
    /\ made_for = <<>> /\ idx = 0 /\ stage2 = <<>> /\ log = <<>>
    /\ site = 0 /\ all_events = <<>> /\ attractions = <<>>
    /\ client = NULL /\ user_query = <<>>
    /\ source_type = "events" /\ cur_item = <<>>
    /\ returned = <<>>

RestFrame ==
    /\ UNCHANGED <<today, returned>>
    /\ UNCHANGED exVars /\ UNCHANGED tsVars /\ UNCHANGED geVars /\ UNCHANGED spVars
    /\ UNCHANGED rqVars

DescLengths == {0, 120, 150, 151, 152}

\* where a description may have a sentence end, and which (indices from 0)
PunctAt == {45, 90, 91, 100, 149, 150}

PunctChar(i) == IF i \in {45, 100, 150} THEN "." ELSE IF i = 91 THEN "!" ELSE "?"

\* where a description may have a space
SpaceAt == {0, 98, 99, 120}

\* the description of the given length with these sentence ends and spaces
Description(n, P, S) ==
    [i \in 1..n |-> IF (i - 1) \in P THEN PunctChar(i - 1)
                    ELSE IF (i - 1) \in S THEN " " ELSE "a"]

Descriptions ==
    { Description(n, P, S) : n \in DescLengths, P \in SUBSET PunctAt, S \in SUBSET SpaceAt }

InitTruncate ==
    /\ pc = "call"
    /\ arg \in Descriptions
    /\ ret = <<>> /\ req = <<>> /\ sources_file = <<>>
    /\ RestInit

Truncate ==
    /\ pc = "call"
    /\ ret' = TruncateDescription(arg, MaxLength)
    /\ pc' = "returned"
    /\ UNCHANGED arg
    /\ RestFrame

NextTruncate == Truncate

SpecTruncate == InitTruncate /\ [][NextTruncate]_vars

\* the last sentence end among the first 150 characters (index from 0), or -1
LastSentenceEnd(d) ==
    LET ends == { i \in 0..(Min(Len(d), 150) - 1) : d[i + 1] \in {".", "!", "?"} }
    IN  IF ends = {} THEN -1 ELSE CHOOSE i \in ends : \A j \in ends : j <= i

\* the last space among the first 150 characters (index from 0), or -1
LastSpace(d) ==
    LET sp == { i \in 0..(Min(Len(d), 150) - 1) : d[i + 1] = " " }
    IN  IF sp = {} THEN -1 ELSE CHOOSE i \in sp : \A j \in sp : j <= i

\* C11 as stated: at most 150 characters, unchanged; a sentence end past
\* position 90, the text through it; otherwise the first 150 characters cut at
\* their last space (uncut when they have none), then "...".
C11_Truncation ==
    pc = "returned" =>
        /\ Len(arg) <= 150 => ret = arg
        /\ (Len(arg) > 150 /\ LastSentenceEnd(arg) > 90) =>
               ret = SubSeq(arg, 1, LastSentenceEnd(arg) + 1)
        /\ (Len(arg) > 150 /\ LastSentenceEnd(arg) <= 90) =>
               ret = SubSeq(arg, 1, IF LastSpace(arg) >= 0 THEN LastSpace(arg) ELSE 150)
                         \o <<".", ".", ".">>

\* C27: the text returned is never longer than max_length, the appended
\* "..." included.
C27_LengthCap == pc = "returned" => Len(ret) <= MaxLength

\* the text returned is never longer than max_length and the three
\* characters of "..."
LengthCapWithEllipsis == pc = "returned" => Len(ret) <= MaxLength + Len(Ellipsis)

\* the text without the white space at its two ends
Trimmed(t) ==
    LET inner == { i \in 1..Len(t) : t[i] \notin {" ", "\n", "\t"} }
    IN  IF inner = {} THEN <<>>
        ELSE SubSeq(t, CHOOSE i \in inner : \A j \in inner : i <= j,
                       CHOOSE i \in inner : \A j \in inner : j <= i)

\* C11 (amended): as C11_Truncation, but the kept text is trimmed of white
\* space at both ends before "..." is added, and a space that is the very
\* first character is no place to cut.
C11_TruncationTrimmed ==
    pc = "returned" =>
        /\ Len(arg) <= 150 => ret = arg
        /\ (Len(arg) > 150 /\ LastSentenceEnd(arg) > 90) =>
               ret = Trimmed(SubSeq(arg, 1, LastSentenceEnd(arg) + 1))
        /\ (Len(arg) > 150 /\ LastSentenceEnd(arg) <= 90 /\ LastSpace(arg) > 0) =>
               ret = Trimmed(SubSeq(arg, 1, LastSpace(arg))) \o <<".", ".", ".">>
        /\ (Len(arg) > 150 /\ LastSentenceEnd(arg) <= 90 /\ LastSpace(arg) <= 0) =>
               ret = SubSeq(arg, 1, 150) \o <<".", ".", ".">>

\* the example: 151 characters, a period at position 100, 101 characters kept
C11_Witness ==
    /\ pc = "returned"
    /\ arg = Description(151, {100}, {})
    /\ ret = SubSeq(arg, 1, 101)
----------------------------------------------------------------------------
\* The cross-source deduplicator.  The title normalization of events is the one
\* of test_dedup_debug.py; the functions deduplicate_events, deduplicate_classes
\* and deduplicate_meetings and the attraction path are not among the sources
\* and follow section 4.6 of the specification.

KeyLength == 50

UpperCase == <<"A", "B", "C", "D", "E", "F", "G", "H", "I", "J", "K", "L", "M",
               "N", "O", "P", "Q", "R", "S", "T", "U", "V", "W", "X", "Y", "Z">>

LowerCase == <<"a", "b", "c", "d", "e", "f", "g", "h", "i", "j", "k", "l", "m",
               "n", "o", "p", "q", "r", "s", "t", "u", "v", "w", "x", "y", "z">>

\* c.lower()
LowerChar(c) ==
    IF \E k \in 1..26 : UpperCase[k] = c
    THEN LowerCase[CHOOSE k \in 1..26 : UpperCase[k] = c]
    ELSE c

\* s.lower()
LowerStr(s) == [i \in 1..Len(s) |-> LowerChar(s[i])]

\* c.isalnum()
IsAlnum(c) ==
    \/ c \in Digits
    \/ \E k \in 1..26 : UpperCase[k] = c \/ LowerCase[k] = c

\* s[n:]
From(s, n) == SubSeq(s, n + 1, Len(s))

\* s.startswith(p)
StartsWith(s, p) == Len(s) >= Len(p) /\ SubSeq(s, 1, Len(p)) = p

\* the number of digits s begins with
RECURSIVE LeadingDigits(_)
LeadingDigits(s) ==
    IF s # <<>> /\ Head(s) \in Digits THEN 1 + LeadingDigits(Tail(s)) ELSE 0

\* re.sub(r'^20\d{2}\s+', '', s)
StripYear(s) ==
    IF /\ Len(s) >= 5
       /\ s[1] = "2" /\ s[2] = "0" /\ s[3] \in Digits /\ s[4] \in Digits
       /\ s[5] \in Whitespace
    THEN LStrip(From(s, 4))
    ELSE s

WordAnnual == <<"a", "n", "n", "u", "a", "l">>

\* re.sub(r'^annual\s+', '', s)
StripAnnual(s) ==
    IF StartsWith(s, WordAnnual) /\ Len(s) > 6 /\ s[7] \in Whitespace
    THEN LStrip(From(s, 6))
    ELSE s

OrdinalSuffixes == {<<"s", "t">>, <<"n", "d">>, <<"r", "d">>, <<"t", "h">>}

\* re.sub(r'^\d+(st|nd|rd|th)\s+annual\s+', '', s)
StripOrdinalAnnual(s) ==
    LET n == LeadingDigits(s)
        rest == From(s, n + 2)
    IN  IF /\ n >= 1 /\ Len(s) >= n + 3
           /\ SubSeq(s, n + 1, n + 2) \in OrdinalSuffixes
           /\ rest[1] \in Whitespace
           /\ StripAnnual(LStrip(rest)) # LStrip(rest)
        THEN StripAnnual(LStrip(rest))
        ELSE s

\* if s.startswith(prefix): s = s[len(prefix):]
StripPrefix(s, prefix) == IF StartsWith(s, prefix) THEN From(s, Len(prefix)) ELSE s

\* for prefix in ['the ', 'a ', 'an ']
StripArticles(s) ==
    StripPrefix(StripPrefix(StripPrefix(s, <<"t", "h", "e", " ">>), <<"a", " ">>),
                <<"a", "n", " ">>)

\* ''.join(c for c in s if c.isalnum() or c.isspace())
KeepAlnumSpace(s) == SelectSeq(s, LAMBDA c : IsAlnum(c) \/ c \in Whitespace)

\* ' '.join(s.split())
RECURSIVE CollapseSpaces(_)
CollapseSpaces(s) ==
    LET t == LStrip(s)
    IN  IF t = <<>> THEN <<>>
        ELSE IF \E i \in 1..Len(t) : t[i] \in Whitespace
        THEN LET k == CHOOSE i \in 1..Len(t) :
                          t[i] \in Whitespace /\ \A j \in 1..(i - 1) : t[j] \notin Whitespace
                 more == CollapseSpaces(From(t, k))
             IN  SubSeq(t, 1, k - 1) \o (IF more = <<>> THEN <<>> ELSE <<" ">> \o more)
        ELSE t

\* the annual markers are left in the title
NormalizeEventTitle_KeepAnnual(title) ==
    CollapseSpaces(KeepAlnumSpace(StripArticles(StripYear(Strip(LowerStr(title))))))

\* the normalized title of an event
NormalizeEventTitle(title) ==
    CollapseSpaces(KeepAlnumSpace(StripArticles(StripAnnual(StripOrdinalAnnual(
        StripYear(Strip(LowerStr(title))))))))

\* s[:n]
Prefix(s, n) == SubSeq(s, 1, Min(Len(s), n))

\* the key without the date
EventKey_NoDate(e) == <<Prefix(NormalizeEventTitle(e.title), KeyLength)>>

\* dedup_key = f"{event_date}_{normalized[:50]}"
EventKey(e) == <<e.start.date, Prefix(NormalizeEventTitle(e.title), KeyLength)>>

\* --- the deduplicator itself (specification, section 4.6) ---

SimilarityPercent == 85

DedupEntry(title, date, description, categories) ==
    [title |-> title, url |-> UrlA, description |-> description,
     start |-> MkStart(date, T1900), allDay |-> FALSE, categories |-> categories]

\* the index (from 1) at which marker first occurs in s, 0 when it does not
FindFirst(s, marker) ==
    LET at == { i \in 1..(Len(s) - Len(marker) + 1) :
                  SubSeq(s, i, i + Len(marker) - 1) = marker }
    IN  IF at = {} THEN 0 ELSE CHOOSE i \in at : \A j \in at : i <= j

\* the text after the first of the markers found in s, <<>> when none is
RECURSIVE TextAfter(_, _)
TextAfter(s, markers) ==
    IF markers = <<>> THEN <<>>
    ELSE IF FindFirst(s, Head(markers)) > 0
         THEN CollapseSpaces(From(s, FindFirst(s, Head(markers)) + Len(Head(markers)) - 1))
         ELSE TextAfter(s, Tail(markers))

InstructorMarkers ==
    << <<" ", "w", "i", "t", "h", " ">>, <<" ", "b", "y", " ">>,
       <<"i", "n", "s", "t", "r", "u", "c", "t", "o", "r", ":">> >>

\* the instructor named in the title, else in the description
ExtractInstructor(e) ==
    IF TextAfter(LowerStr(e.title), InstructorMarkers) # <<>>
    THEN TextAfter(LowerStr(e.title), InstructorMarkers)
    ELSE TextAfter(LowerStr(e.description), InstructorMarkers)

LocationMarkers == << <<"a", "t", " ">> >>

\* the place named in the description
ExtractLocation(e) == TextAfter(LowerStr(e.description), LocationMarkers)

\* the gentler normalization of class titles: ordinals and week markers stay
NormalizeClassTitle(title) == CollapseSpaces(KeepAlnumSpace(Strip(LowerStr(title))))

\* the title of a meeting, lower-cased, white space collapsed
NormalizeMeetingTitle(title) == CollapseSpaces(LowerStr(title))

ClassKey(e) ==
    <<e.start.date, ExtractInstructor(e), Prefix(NormalizeClassTitle(e.title), KeyLength)>>

MeetingKey(e) == <<e.start.date, ExtractLocation(e), NormalizeMeetingTitle(e.title)>>

KeyOf(category, e) ==
    CASE category = "events"   -> EventKey(e)
      [] category = "classes"  -> ClassKey(e)
      [] category = "meetings" -> MeetingKey(e)

RECURSIVE CommonPrefixLen(_, _)
CommonPrefixLen(a, b) ==
    IF a # <<>> /\ b # <<>> /\ Head(a) = Head(b)
    THEN 1 + CommonPrefixLen(Tail(a), Tail(b))
    ELSE 0

Reverse(s) == [i \in 1..Len(s) |-> s[Len(s) + 1 - i]]

\* the characters two titles share at their two ends
Matching(a, b) ==
    LET p == CommonPrefixLen(a, b)
    IN  p + CommonPrefixLen(Reverse(From(a, p)), Reverse(From(b, p)))

\* string similarity 2 * M / T of the normalized titles is at least 0.85
Similar(a, b) ==
    LET x == NormalizeMeetingTitle(a.title)
        y == NormalizeMeetingTitle(b.title)
    IN  100 * 2 * Matching(x, y) >= SimilarityPercent * (Len(x) + Len(y))

\* the two entries are taken for the same thing
SameItem(category, a, b) ==
    IF category = "attractions" THEN Similar(a, b)
    ELSE KeyOf(category, a) = KeyOf(category, b)

\* new is to replace old: it alone has a description, or both or neither
\* have one and its title is longer
Preferred(new, old) ==
    \/ new.description # <<>> /\ old.description = <<>>
    \/ /\ (new.description # <<>>) = (old.description # <<>>)
       /\ Len(new.title) > Len(old.title)

\* the entry kept of the two; on the attraction path with the categories of both
Winner(category, old, new) ==
    LET w == IF Preferred(new, old) THEN new ELSE old
    IN  IF category = "attractions"
        THEN [w EXCEPT !.categories = old.categories \cup new.categories]
        ELSE w

\* one entry taken into the list kept so far
DedupStep(category, kept, e) ==
    LET same == { i \in 1..Len(kept) : SameItem(category, kept[i], e) }
    IN  IF same = {} THEN Append(kept, e)
        ELSE LET i == CHOOSE i \in same : \A j \in same : i <= j
             IN  [kept EXCEPT ![i] = Winner(category, kept[i], e)]

RECURSIVE Deduplicate(_, _)
Deduplicate(category, entries) ==
    IF entries = <<>> THEN <<>>
    ELSE DedupStep(category,
                   Deduplicate(category, SubSeq(entries, 1, Len(entries) - 1)),
                   entries[Len(entries)])

\* --- the calls of the deduplicator ---

MaxDedup == 3

TitleFestival2026 ==
    <<"2", "0", "2", "6", " ", "A", "n", "n", "u", "a", "l", " ", "S", "p", "r", "i", "n",
      "g", " ", "F", "e", "s", "t", "i", "v", "a", "l">>

TitleFestival ==
    <<"S", "p", "r", "i", "n", "g", " ", "F", "e", "s", "t", "i", "v", "a", "l">>

TitleFestivalAnnual ==
    <<"A", "n", "n", "u", "a", "l", " ", "S", "p", "r", "i", "n", "g", " ", "F", "e", "s",
      "t", "i", "v", "a", "l">>

TitleReunion1999 ==
    <<"1", "9", "9", "9", " ", "R", "e", "u", "n", "i", "o", "n">>

TitleReunion ==
    <<"R", "e", "u", "n", "i", "o", "n">>

TitleMatinee ==
    <<"V", "a", "l", "d", "o", "s", "t", "a", " ", "C", "o", "m", "m", "u", "n", "i", "t",
      "y", " ", "T", "h", "e", "a", "t", "r", "e", " ", "P", "r", "e", "s", "e", "n",
      "t", "s", " ", "A", " ", "M", "i", "d", "s", "u", "m", "m", "e", "r", " ", "N",
      "i", "g", "h", "t", "s", " ", "D", "r", "e", "a", "m", " ", "M", "a", "t", "i",
      "n", "e", "e">>

TitleEvening ==
    <<"V", "a", "l", "d", "o", "s", "t", "a", " ", "C", "o", "m", "m", "u", "n", "i", "t",
      "y", " ", "T", "h", "e", "a", "t", "r", "e", " ", "P", "r", "e", "s", "e", "n",
      "t", "s", " ", "A", " ", "M", "i", "d", "s", "u", "m", "m", "e", "r", " ", "N",
      "i", "g", "h", "t", "s", " ", "D", "r", "e", "a", "m", " ", "E", "v", "e", "n",
      "i", "n", "g", " ", "S", "h", "o", "w">>

TitleTheArtWalk ==
    <<"T", "h", "e", " ", "A", "r", "t", " ", "W", "a", "l", "k", "!">>

TitleArtWalk ==
    <<"A", "r", "t", " ", "W", "a", "l", "k">>

TitlePottery ==
    <<"P", "o", "t", "t", "e", "r", "y", " ", "B", "a", "s", "i", "c", "s">>

TitleDrawingJane ==
    <<"D", "r", "a", "w", "i", "n", "g", " ", "C", "l", "a", "s", "s", " ", "w", "i", "t",
      "h", " ", "J", "a", "n", "e", " ", "S", "m", "i", "t", "h">>

TitleDrawing ==
    <<"D", "r", "a", "w", "i", "n", "g", " ", "C", "l", "a", "s", "s">>

TitleCouncil ==
    <<"C", "i", "t", "y", " ", "C", "o", "u", "n", "c", "i", "l", " ", "M", "e", "e", "t",
      "i", "n", "g">>

TitleCouncilSpaced ==
    <<"C", "i", "t", "y", " ", " ", "C", "o", "u", "n", "c", "i", "l", " ", "M", "e", "e",
      "t", "i", "n", "g">>

TitleWaterPark ==
    <<"W", "i", "l", "d", " ", "A", "d", "v", "e", "n", "t", "u", "r", "e", "s", " ", "W",
      "a", "t", "e", "r", " ", "P", "a", "r", "k">>

TitleThemeWaterPark ==
    <<"W", "i", "l", "d", " ", "A", "d", "v", "e", "n", "t", "u", "r", "e", "s", " ", "T",
      "h", "e", "m", "e", " ", "W", "a", "t", "e", "r", " ", "P", "a", "r", "k">>

TitleThemeAndWaterPark ==
    <<"W", "i", "l", "d", " ", "A", "d", "v", "e", "n", "t", "u", "r", "e", "s", " ", "T",
      "h", "e", "m", "e", " ", "a", "n", "d", " ", "W", "a", "t", "e", "r", " ", "P",
      "a", "r", "k">>

TitleCrescent ==
    <<"T", "h", "e", " ", "C", "r", "e", "s", "c", "e", "n", "t">>

DescMusic ==
    <<"L", "i", "v", "e", " ", "m", "u", "s", "i", "c">>

DescFood ==
    <<"F", "o", "o", "d", " ", "t", "r", "u", "c", "k", "s", " ", "a", "n", "d", " ", "m",
      "o", "r", "e">>

DescByJane ==
    <<"T", "a", "u", "g", "h", "t", " ", "b", "y", " ", "J", "a", "n", "e", " ", "S", "m",
      "i", "t", "h">>

DescCityHall ==
    <<"A", "t", " ", "C", "i", "t", "y", " ", "H", "a", "l", "l">>

DescAnnex ==
    <<"A", "t", " ", "t", "h", "e", " ", "A", "n", "n", "e", "x">>

Mar01 == MkDate(2026, 3, 1)
Mar08 == MkDate(2026, 3, 8)
Mar15 == MkDate(2026, 3, 15)
Mar20 == MkDate(2026, 3, 20)

EventInputs ==
    { DedupEntry(TitleFestival2026, Mar15, <<>>, {}),
      DedupEntry(TitleFestival, Mar15, DescMusic, {}),
      DedupEntry(TitleFestival, Mar20, <<>>, {}),
      DedupEntry(TitleFestivalAnnual, Mar15, DescFood, {}),
      DedupEntry(TitleReunion1999, Mar15, <<>>, {}),
      DedupEntry(TitleReunion, Mar15, DescMusic, {}),
      DedupEntry(TitleMatinee, Mar15, <<>>, {}),
      DedupEntry(TitleEvening, Mar15, <<>>, {}),
      DedupEntry(TitleTheArtWalk, Mar15, <<>>, {}),
      DedupEntry(TitleArtWalk, Mar15, <<>>, {}) }

ClassInputs ==
    { DedupEntry(TitlePottery, Mar01, DescMusic, {}),
      DedupEntry(TitlePottery, Mar08, DescMusic, {}),
      DedupEntry(TitleDrawingJane, Mar01, <<>>, {}),
      DedupEntry(TitleDrawingJane, Mar01, DescFood, {}),
      DedupEntry(TitleDrawing, Mar01, DescByJane, {}) }

MeetingInputs ==
    { DedupEntry(TitleCouncil, Mar15, DescCityHall, {}),
      DedupEntry(TitleCouncilSpaced, Mar15, DescCityHall, {}),
      DedupEntry(TitleCouncil, Mar15, DescAnnex, {}),
      DedupEntry(TitleCouncil, Mar20, <<>>, {}) }

AttractionInputs ==
    { DedupEntry(TitleWaterPark, Mar15, <<>>, {"parks"}),
      DedupEntry(TitleThemeWaterPark, Mar15, DescMusic, {"family"}),
      DedupEntry(TitleThemeAndWaterPark, Mar15, DescFood, {"rides"}),
      DedupEntry(TitleCrescent, Mar15, <<>>, {"history"}) }

InputsOf(category) ==
    CASE category = "events"      -> EventInputs
      [] category = "classes"     -> ClassInputs
      [] category = "meetings"    -> MeetingInputs
      [] category = "attractions" -> AttractionInputs

Categories == {"events", "classes", "meetings", "attractions"}

\* arg: the category and the list handed in; ret: the list handed back
InitDedup ==
    /\ pc = "call"
    /\ \E category \in Categories :
       \E n \in 0..MaxDedup :
       \E entries \in [1..n -> InputsOf(category)] :
           arg = [category |-> category, entries |-> entries]
    /\ ret = <<>> /\ req = <<>> /\ sources_file = <<>>
    /\ RestInit

\* the list is deduplicated
DeduplicateCall ==
    /\ pc = "call"
    /\ ret' = Deduplicate(arg.category, arg.entries)
    /\ pc' = "once"
    /\ UNCHANGED arg
    /\ RestFrame

\* the list handed back is deduplicated again
DeduplicateAgain ==
    /\ pc = "once"
    /\ arg' = [arg EXCEPT !.entries = ret]
    /\ ret' = Deduplicate(arg.category, ret)
    /\ pc' = "twice"
    /\ RestFrame

NextDedup == DeduplicateCall \/ DeduplicateAgain

SpecDedup == InitDedup /\ [][NextDedup]_vars

\* --- the claims about the deduplicator ---

SetOf(s) == { s[i] : i \in 1..Len(s) }

HasDescription(e) == e.description # <<>>

ClaimedNormalizedTitle(title) ==
    LET s == Strip(LowerStr(title))
        noYear == IF Len(s) >= 5 /\ LeadingDigits(s) = 4 /\ s[5] \in {" ", "\n", "\t"}
                  THEN LStrip(From(s, 4)) ELSE s
    IN  CollapseSpaces(KeepAlnumSpace(StripArticles(StripAnnual(
            StripOrdinalAnnual(noYear)))))

ClaimedEventKey(e) == <<e.start.date, Prefix(ClaimedNormalizedTitle(e.title), 50)>>

\* among the entries of the list with the key of e, o is the one to keep:
\* none of them has a description when o has none, and none of those like o
\* in having a description or not has a longer title
IsBest(o, group) ==
    \A t \in group :
        /\ HasDescription(t) => HasDescription(o)
        /\ (HasDescription(t) = HasDescription(o)) => Len(t.title) <= Len(o.title)

----------------------------------------------------------------------------
(***************************************************************************)
(* The server.  POST /generate_events is a plain "def" endpoint of the     *)
(* FastAPI application: each request runs the body of generate_events on   *)
(* a thread of its own, with its own all_events and attractions, and the   *)
(* body takes no lock and joins no queue.  A request is followed from its  *)
(* arrival through the loop over APPROVED_SITES (one network call a turn), *)
(* the chat call, and the sort and return.                                 *)
(***************************************************************************)
NumRequests == 2
MaxFound == 3

Requests == 1..NumRequests

Waiting == [pc |-> "idle", site |-> 0, found |-> 0]

InitServer ==
    /\ pc = "serving"
    /\ today = MkDate(2026, 2, 7)
    /\ client \in {NULL, <<"OpenAI">>}
    /\ req = [r \in Requests |-> Waiting]
    /\ sources_file = <<>>
    /\ heap = <<>> /\ origin = <<>> /\ results = <<>> /\ expanded = <<>>
    /\ event_urls = <<>> /\ with_url = <<>> /\ all_results = <<>>
    /\ made_for = <<>> /\ idx = 0 /\ stage2 = <<>> /\ log = <<>>
    /\ site = 0 /\ all_events = <<>> /\ attractions = <<>> /\ user_query = <<>>
    /\ source_type = "events" /\ cur_item = <<>>
    /\ arg = <<>> /\ ret = <<>>
    /\ returned = <<>>

ServerFrame ==
    /\ UNCHANGED <<pc, today, returned, sources_file>>
    /\ UNCHANGED exVars /\ UNCHANGED tsVars /\ UNCHANGED geVars /\ UNCHANGED spVars
    /\ UNCHANGED puVars

\* request r arrives and the body of generate_events starts
Arrive(r) ==
    /\ req[r].pc = "idle"
    /\ req' = [req EXCEPT ![r].pc = "sites"]
    /\ ServerFrame

\* one turn of the loop of request r: scrape_site gives k entries, which go
\* to all_events for an event site and to attractions otherwise
ScrapeSite(r, k) ==
    /\ req[r].pc = "sites" /\ req[r].site < NumSites
    /\ req' = [req EXCEPT ![r].site = @ + 1,
                          ![r].found = IF req[r].site + 1 \in EventSites THEN @ + k ELSE @]
    /\ ServerFrame

\* request r, after its last site: the chat call, made for too few events
ChatCall(r) ==
    /\ req[r].pc = "sites" /\ req[r].site = NumSites
    /\ req[r].found < FallbackThreshold /\ client # NULL
    /\ req' = [req EXCEPT ![r].pc = "sort"]
    /\ ServerFrame

\* request r, after its last site: no chat call
NoChatCall(r) ==
    /\ req[r].pc = "sites" /\ req[r].site = NumSites
    /\ ~(req[r].found < FallbackThreshold /\ client # NULL)
    /\ req' = [req EXCEPT ![r].pc = "sort"]
    /\ ServerFrame

\* request r sorts its events and returns the response
Respond(r) ==
    /\ req[r].pc = "sort"
    /\ req' = [req EXCEPT ![r].pc = "done"]
    /\ ServerFrame

NextServer ==
    \/ \E r \in Requests : Arrive(r)
    \/ \E r \in Requests, k \in 0..MaxFound : ScrapeSite(r, k)
    \/ \E r \in Requests : ChatCall(r)
    \/ \E r \in Requests : NoChatCall(r)
    \/ \E r \in Requests : Respond(r)

SpecServer == InitServer /\ [][NextServer]_vars

\* the scraping run of request r is under way
Running(r) == req[r].pc \in {"sites", "sort"}

\* C17: at most one scraping run proceeds at any time; the runs of two
\* requests never overlap.
C17_OneRunAtATime ==
    Cardinality({r \in Requests : Running(r)}) <= 1
----------------------------------------------------------------------------
(***************************************************************************)
(* Failures and their handlers.  A source is read by one of scrape_site,   *)
(* scrape_with_ai, _scrape_twostage and scrape_generic_auto, as a listing  *)
(* page followed by monthly pages.  A page can fail at its fetch (the      *)
(* request raises, times out or answers with a status that is not 2xx) or  *)
(* while its items are extracted; the closing steps of the function can    *)
(* fail after the page loop.  What a failure does is decided by the try    *)
(* block that encloses the failing statement.  The run is the loop of      *)
(* generate_events: each source's list is appended to the run's list.      *)
(***************************************************************************)
MaxPages == 2
MaxSources == 2

Methods == {"scrape_site", "scrape_with_ai", "_scrape_twostage", "scrape_generic_auto"}

\* "fetch": requests.get raises or raise_for_status does; "chat": the call of
\* the extraction service raises; "parse": its answer, or an item of the
\* page, cannot be used
PageFailures == {"none", "fetch", "chat", "parse"}

TailFailures == {"none", "closing"}

\* scrape_site and scrape_generic_auto read the pages without the service
FailuresOf(method) ==
    IF method \in {"scrape_with_ai", "_scrape_twostage"}
    THEN PageFailures
    ELSE PageFailures \ {"chat"}

\* the inputs of one call: the outcome of each page, and of the closing
\* steps (which are made to fail after a loop without failures)
Calls ==
    UNION { [method : {m}, pages : [1..n -> FailuresOf(m)], tail : {"none"}]
            \cup [method : {m}, pages : {[k \in 1..n |-> "none"]}, tail : {"closing"}] :
            m \in Methods, n \in 1..MaxPages }

\* no try block encloses the fetch of a monthly page
Handler_Unhandled(method, failure, k) ==
    IF failure = "fetch" /\ k > 1 THEN "raise" ELSE "continue"

\* what the handler enclosing a failure on page k does: "continue" goes on
\* with the next page, "return_empty" makes the function return []
Handler(method, failure, k) ==
    CASE method = "scrape_with_ai" -> "continue"
      [] method = "_scrape_twostage" ->
            IF failure = "parse" THEN "continue" ELSE "return_empty"
      [] method = "scrape_generic_auto" ->
            IF k = 1 THEN "return_empty" ELSE "continue"
      [] method = "scrape_site" ->
            IF failure = "fetch" /\ k = 1 THEN "return_empty" ELSE "continue"

\* the page loop from page k on, acc holding the pages whose items were
\* appended so far
RECURSIVE PageLoop(_, _, _)
PageLoop(call, k, acc) ==
    IF k > Len(call.pages) THEN [raised |-> FALSE, aborted |-> FALSE, list |-> acc]
    ELSE IF call.pages[k] = "none" THEN PageLoop(call, k + 1, Append(acc, k))
    ELSE LET h == Handler(call.method, call.pages[k], k)
         IN  IF h = "continue" THEN PageLoop(call, k + 1, acc)
             ELSE [raised |-> h = "raise", aborted |-> TRUE, list |-> <<>>]

\* the closing steps: scrape_site's filter keeps an entry whose date it
\* cannot read; in the other functions the outermost handler returns []
Closing(call, loop) ==
    IF loop.aborted \/ call.tail = "none" \/ call.method = "scrape_site"
    THEN loop
    ELSE [raised |-> FALSE, aborted |-> TRUE, list |-> <<>>]

\* one call of a scraping function: whether it raised, and the list it
\* returned (the pages whose items are in it)
Scrape(call) == Closing(call, PageLoop(call, 1, <<>>))

InitSources ==
    /\ pc = "sources"
    /\ arg = <<>> /\ ret = <<>>
    /\ req = <<>> /\ sources_file = <<>>
    /\ RestInit

\* one turn of the run's loop: the list of the source is appended; an
\* exception leaving the call ends the run with the error response
ScrapeSource(call) ==
    /\ pc = "sources" /\ Len(arg) < MaxSources
    /\ arg' = Append(arg, call)
    /\ \E r \in {Scrape(call)} :
          /\ ret' = Append(ret, r)
          /\ IF r.raised
             THEN pc' = "error" /\ returned' = <<>>
             ELSE /\ returned' = returned \o [i \in 1..Len(r.list) |-> <<Len(arg) + 1, r.list[i]>>]
                  /\ pc' = pc
    /\ UNCHANGED today
    /\ UNCHANGED exVars /\ UNCHANGED tsVars /\ UNCHANGED geVars /\ UNCHANGED spVars
    /\ UNCHANGED rqVars

\* the loop is over: the response is returned
ReturnSources ==
    /\ pc = "sources" /\ Len(arg) = MaxSources
    /\ pc' = "done"
    /\ UNCHANGED <<today, returned>>
    /\ UNCHANGED exVars /\ UNCHANGED tsVars /\ UNCHANGED geVars /\ UNCHANGED spVars
    /\ UNCHANGED puVars /\ UNCHANGED rqVars

NextSources ==
    \/ \E call \in Calls : ScrapeSource(call)
    \/ ReturnSources

SpecSources == InitSources /\ [][NextSources]_vars

\* the pages of a call that were read without a failure
GoodPages(call) == { k \in 1..Len(call.pages) : call.pages[k] = "none" }

\* source i failed completely: the function came back with nothing to show
FailedCompletely(i) == GoodPages(arg[i]) = {} \/ ret[i].aborted

\* C18: every call of the four scraping functions returns a list and does
\* not raise, and a run reaches its end with, for every source, exactly the
\* entries that source's call returned, whatever happened to the others.
C18_SourceFailureIsolation ==
    /\ pc # "error"
    /\ \A i \in 1..Len(ret) : ~ret[i].raised
    /\ pc = "done" =>
          /\ Len(ret) = MaxSources
          /\ \A i \in 1..MaxSources :
                \A k \in 1..MaxPages :
                    (\E j \in 1..Len(ret[i].list) : ret[i].list[j] = k)
                        <=> (\E j \in 1..Len(returned) : returned[j] = <<i, k>>)

\* a finished run whose first source failed completely (a monthly page of
\* _scrape_twostage could not be fetched) and whose second source's entries
\* are all in the response
C18_Witness ==
    /\ pc = "done"
    /\ FailedCompletely(1)
    /\ arg[1].method = "_scrape_twostage" /\ arg[1].pages = <<"none", "fetch">>
    /\ returned = << <<2, 1>>, <<2, 2>> >>

\* the pages whose items are in the list a call returned
PagesIn(r) == { r.list[j] : j \in 1..Len(r.list) }

\* the listing page of call i was read, and the only failures of the call
\* are fetches of monthly pages
OnlyMonthlyFetchFailures(i) ==
    /\ arg[i].tail = "none"
    /\ arg[i].pages[1] = "none"
    /\ \A k \in 1..Len(arg[i].pages) : arg[i].pages[k] \in {"none", "fetch"}

\* C19: when the fetch of one page of a source fails, the items of the
\* other pages of that source, those read before it and those read after
\* it, are in the list the call returns.
C19_PageFailureIsolation ==
    \A i \in 1..Len(ret) :
        OnlyMonthlyFetchFailures(i) => GoodPages(arg[i]) \subseteq PagesIn(ret[i])

\* the same for the three functions other than _scrape_twostage
PageFailureIsolationElsewhere ==
    \A i \in 1..Len(ret) :
        OnlyMonthlyFetchFailures(i) /\ arg[i].method # "_scrape_twostage"
            => GoodPages(arg[i]) \subseteq PagesIn(ret[i])
----------------------------------------------------------------------------
(***************************************************************************)
(* The answer of the extraction service for one page (scrape_with_ai):     *)
(* the code-fence markers are cut off, the rest is parsed as JSON, and the *)
(* items of the array become entries.  Texts are sequences of characters.  *)
(* json.loads is modelled for documents made of arrays, objects, strings   *)
(* without escapes, unsigned integers and null.                            *)
(***************************************************************************)
\* the grave accent, the character the fence markers are made of
Tick == "grave"

\* s.endswith(p)
EndsWith(s, p) == Len(s) >= Len(p) /\ SubSeq(s, Len(s) - Len(p) + 1, Len(s)) = p

Fence == <<Tick, Tick, Tick>>

FenceJson == Fence \o <<"j", "s", "o", "n">>

\* the markers are left where they are
StripFences_Kept(content) == Strip(content)

\* raw_output as it is parsed: stripped, the markers cut, stripped again
StripFences(content) ==
    LET a == Strip(content)
        b == IF StartsWith(a, FenceJson) THEN From(a, 7) ELSE a
        c == IF StartsWith(b, Fence) THEN From(b, 3) ELSE b
        d == IF EndsWith(c, Fence) THEN SubSeq(c, 1, Len(c) - 3) ELSE c
    IN  Strip(d)

NoParse == [ok |-> FALSE, next |-> 0, val |-> <<>>]

Parsed(val, next) == [ok |-> TRUE, next |-> next, val |-> val]

\* the first position from i on that holds no white space
RECURSIVE SkipWs(_, _)
SkipWs(s, i) == IF i <= Len(s) /\ s[i] \in Whitespace THEN SkipWs(s, i + 1) ELSE i

\* the position of the quote closing a string whose text begins at i, or 0
RECURSIVE ClosingQuote(_, _)
ClosingQuote(s, i) ==
    IF i > Len(s) \/ s[i] \in {"\\", "\n", "\t"} THEN 0
    ELSE IF s[i] = "\"" THEN i
    ELSE ClosingQuote(s, i + 1)

ParseString(s, i) ==
    IF i <= Len(s) /\ s[i] = "\"" /\ ClosingQuote(s, i + 1) > 0
    THEN Parsed([t |-> "str", v |-> SubSeq(s, i + 1, ClosingQuote(s, i + 1) - 1)],
                ClosingQuote(s, i + 1) + 1)
    ELSE NoParse

ParseNumber(s, i) ==
    LET n == IF s[i] = "0" THEN 1 ELSE LeadingDigits(From(s, i - 1))
    IN  Parsed([t |-> "num", v |-> SubSeq(s, i, i + n - 1)], i + n)

WordNull == <<"n", "u", "l", "l">>

RECURSIVE ParseValue(_, _), ParseElements(_, _, _), ParseMembers(_, _, _)
\* a JSON value beginning at the first position from i on without white space
ParseValue(s, i) ==
    LET j == SkipWs(s, i)
    IN  IF j > Len(s) THEN NoParse
        ELSE IF s[j] = "\"" THEN ParseString(s, j)
        ELSE IF s[j] \in Digits THEN ParseNumber(s, j)
        ELSE IF StartsWith(From(s, j - 1), WordNull)
             THEN Parsed([t |-> "null", v |-> <<>>], j + 4)
        ELSE IF s[j] = "["
             THEN IF SkipWs(s, j + 1) <= Len(s) /\ s[SkipWs(s, j + 1)] = "]"
                  THEN Parsed([t |-> "arr", v |-> <<>>], SkipWs(s, j + 1) + 1)
                  ELSE ParseElements(s, j + 1, <<>>)
        ELSE IF s[j] = "{"
             THEN IF SkipWs(s, j + 1) <= Len(s) /\ s[SkipWs(s, j + 1)] = "}"
                  THEN Parsed([t |-> "obj", v |-> <<>>], SkipWs(s, j + 1) + 1)
                  ELSE ParseMembers(s, j + 1, <<>>)
        ELSE NoParse

\* the elements of an array from i on, acc holding those before
ParseElements(s, i, acc) ==
    LET e == ParseValue(s, i)
        j == SkipWs(s, e.next)
    IN  IF ~e.ok \/ j > Len(s) THEN NoParse
        ELSE IF s[j] = "," THEN ParseElements(s, j + 1, Append(acc, e.val))
        ELSE IF s[j] = "]" THEN Parsed([t |-> "arr", v |-> Append(acc, e.val)], j + 1)
        ELSE NoParse

\* the members of an object from i on, acc holding those before
ParseMembers(s, i, acc) ==
    LET key == ParseString(s, SkipWs(s, i))
        c   == SkipWs(s, key.next)
    IN  IF ~key.ok \/ c > Len(s) \/ s[c] # ":" THEN NoParse
        ELSE LET e == ParseValue(s, c + 1)
                 j == SkipWs(s, e.next)
                 m == [key |-> key.val.v, val |-> e.val]
             IN  IF ~e.ok \/ j > Len(s) THEN NoParse
                 ELSE IF s[j] = "," THEN ParseMembers(s, j + 1, Append(acc, m))
                 ELSE IF s[j] = "}"
                      THEN Parsed([t |-> "obj", v |-> Append(acc, m)], j + 1)
                 ELSE NoParse

\* json.loads(s): the value, or nothing for a JSONDecodeError
JsonLoads(s) ==
    LET r == ParseValue(s, 1)
    IN  IF r.ok /\ SkipWs(s, r.next) = Len(s) + 1 THEN <<r.val>> ELSE <<>>

\* item.get(key, default) on a parsed object: the last member of that name
Get(item, key, default) ==
    LET at == { k \in 1..Len(item.v) : item.v[k].key = key }
    IN  IF at = {} THEN default
        ELSE item.v[CHOOSE k \in at : \A z \in at : z <= k].val

KeyTitle == <<"t", "i", "t", "l", "e">>
KeyTime == <<"t", "i", "m", "e">>
KeyUrl == <<"u", "r", "l">>

Str(chars) == [t |-> "str", v |-> chars]

Untitled == <<"U", "n", "t", "i", "t", "l", "e", "d">>

\* the body of "for item in items" raises for this item: the item is no
\* object, or its url or its time is no string
ItemRaises(item) ==
    \/ item.t # "obj"
    \/ Get(item, KeyUrl, Str(<<>>)).t # "str"
    \/ Get(item, KeyTime, Str(<<>>)).t # "str"

\* the entry appended for an item: its title and the time of its start
ItemEntry(item, st) ==
    [title |-> Get(item, KeyTitle, Str(Untitled)),
     time  |-> ValidTimeFor(Get(item, KeyTime, Str(DefaultTime(st))).v, st) \o Secs]

\* "for item in items": the entries appended, up to the first item that raises
RECURSIVE ItemLoop(_, _, _)
ItemLoop(items, st, acc) ==
    IF items = <<>> THEN [outcome |-> "items", entries |-> acc]
    ELSE IF ItemRaises(Head(items)) THEN [outcome |-> "page_error", entries |-> acc]
    ELSE ItemLoop(Tail(items), st, Append(acc, ItemEntry(Head(items), st)))

\* what one page's answer adds to all_results, and how the page ended:
\* "items" (the loop ran through), "decode_error" (except JSONDecodeError:
\* items = []), "page_error" (the page's handler caught another exception)
PageItems(content, st) ==
    LET doc == JsonLoads(StripFences(content))
    IN  IF doc = <<>> THEN [outcome |-> "decode_error", entries |-> <<>>]
        ELSE IF doc[1].t \in {"num", "null"}
             THEN [outcome |-> "page_error", entries |-> <<>>]
        ELSE IF doc[1].t = "obj"
             THEN IF doc[1].v = <<>> THEN [outcome |-> "items", entries |-> <<>>]
                  ELSE [outcome |-> "page_error", entries |-> <<>>]
        ELSE IF doc[1].t = "str"
             THEN [outcome |-> IF doc[1].v = <<>> THEN "items" ELSE "page_error",
                   entries |-> <<>>]
        ELSE ItemLoop(doc[1].v, st, <<>>)

BodyEmptyArray == <<"[", "]">>
BodyOneItem ==
    <<"[", "{", "\"", "t", "i", "t", "l", "e", "\"", ":", " ", "\"", "F", "a", "i", "r", "\"",
      "}", "]">>
BodyTwoItems ==
    <<"[", "{", "\"", "t", "i", "t", "l", "e", "\"", ":", " ", "\"", "F", "a", "i", "r", "\"",
      "}", ",", "\n", " ", "{", "\"", "t", "i", "t", "l", "e", "\"", ":", " ", "\"", "A",
      "r", "t", " ", "W", "a", "l", "k", "\"", ",", " ", "\"", "t", "i", "m", "e", "\"",
      ":", " ", "\"", "1", "8", ":", "3", "0", "\"", "}", "]">>
BodyBadTime ==
    <<"[", "{", "\"", "t", "i", "t", "l", "e", "\"", ":", " ", "\"", "F", "a", "i", "r", "\"",
      ",", " ", "\"", "t", "i", "m", "e", "\"", ":", " ", "\"", "7", "p", "m", "\"", "}",
      "]">>

BodyNullTime ==
    <<"[", "{", "\"", "t", "i", "t", "l", "e", "\"", ":", " ", "\"", "F", "a", "i", "r", "\"",
      "}", ",", " ", "{", "\"", "t", "i", "t", "l", "e", "\"", ":", " ", "\"", "G", "a",
      "l", "a", "\"", ",", " ", "\"", "t", "i", "m", "e", "\"", ":", " ", "n", "u", "l",
      "l", "}", "]">>
BodyNullTimeFirst ==
    <<"[", "{", "\"", "t", "i", "t", "l", "e", "\"", ":", " ", "\"", "G", "a", "l", "a",
      "\"", ",", " ", "\"", "t", "i", "m", "e", "\"", ":", " ", "n", "u", "l", "l",
      "}", ",", " ", "{", "\"", "t", "i", "t", "l", "e", "\"", ":", " ", "\"", "F",
      "a", "i", "r", "\"", "}", "]">>
BodyStrings == <<"[", "\"", "F", "a", "i", "r", "\"", "]">>
BodyObject ==
    <<"{", "\"", "t", "i", "t", "l", "e", "\"", ":", " ", "\"", "F", "a", "i", "r", "\"", "}">>
BodyNumber == <<"5">>
BodyNull == <<"n", "u", "l", "l">>

BodyNothing == <<>>
BodyTrailingComma ==
    <<"[", "{", "\"", "t", "i", "t", "l", "e", "\"", ":", " ", "\"", "F", "a", "i", "r", "\"",
      "}", ",", "]">>
BodyCutShort ==
    <<"[", "{", "\"", "t", "i", "t", "l", "e", "\"", ":", " ", "\"", "F", "a", "i", "r", "\"",
      "}">>
BodyProse ==
    <<"E", "v", "e", "n", "t", "s", ":", " ", "[", "{", "\"", "t", "i", "t", "l", "e", "\"",
      ":", " ", "\"", "F", "a", "i", "r", "\"", "}", "]">>
BodySingleQuotes ==
    <<"[", "{", "'", "t", "i", "t", "l", "e", "'", ":", " ", "'", "F", "a", "i", "r", "'",
      "}", "]">>

OpenJson == <<Tick, Tick, Tick, "j", "s", "o", "n", "\n">>
OpenPlain == <<Tick, Tick, Tick, "\n">>
OpenJsonTight == <<Tick, Tick, Tick, "j", "s", "o", "n">>
OpenUpper == <<Tick, Tick, Tick, "J", "S", "O", "N", "\n">>
OpenPadded == <<" ", " ", Tick, Tick, Tick, "j", "s", "o", "n", "\n">>

ClosePlain == <<"\n", Tick, Tick, Tick>>
ClosePadded == <<"\n", Tick, Tick, Tick, "\n">>
CloseTight == <<Tick, Tick, Tick>>

\* arrays of objects
ArrayBodies == {BodyEmptyArray, BodyOneItem, BodyTwoItems, BodyBadTime}

\* other JSON documents
OtherBodies == {BodyNullTime, BodyNullTimeFirst, BodyStrings, BodyObject, BodyNumber, BodyNull}

\* texts that are not JSON
BrokenBodies == {BodyNothing, BodyTrailingComma, BodyCutShort, BodyProse, BodySingleQuotes}

Bodies == ArrayBodies \cup OtherBodies \cup BrokenBodies

\* the markers of a fenced answer
Opens == {OpenJson, OpenPlain, OpenJsonTight, OpenUpper, OpenPadded}
Closes == {ClosePlain, ClosePadded, CloseTight}

\* the answers: a body, bare or between an opening and a closing marker
Answers ==
    [open : Opens \cup {<<>>}, body : Bodies, close : Closes \cup {<<>>}]

Content(a) == a.open \o a.body \o a.close

InitAnswer ==
    /\ pc = "answer"
    /\ arg \in [answer : Answers, source_type : {"events", "attractions"}]
    /\ ret = <<>> /\ req = <<>> /\ sources_file = <<>>
    /\ RestInit

\* the answer of the page is parsed and its items are appended
ParseAnswer ==
    /\ pc = "answer"
    /\ ret' = PageItems(Content(arg.answer), arg.source_type)
    /\ pc' = "parsed"
    /\ UNCHANGED arg
    /\ RestFrame

NextAnswer == ParseAnswer

SpecAnswer == InitAnswer /\ [][NextAnswer]_vars

\* the texts of the answers that are JSON documents
JsonDocuments == ArrayBodies \cup OtherBodies

\* the opening markers the statement names, with or without a line break
\* after them or blanks before them
NamedOpens == {OpenJson, OpenPlain, OpenJsonTight, OpenPadded}

\* C20: an answer that is not valid JSON once the surrounding markers are
\* cut adds no entry and ends in the decode-error branch, nothing being
\* raised to the caller; a JSON array between an opening and a closing
\* marker gives what the same array gives without them.
C20_AnswerParsing ==
    pc = "parsed" =>
        /\ ret.outcome \in {"items", "decode_error", "page_error"}
        /\ StripFences(Content(arg.answer)) \notin JsonDocuments
              => ret.outcome = "decode_error" /\ ret.entries = <<>>
        /\ (/\ arg.answer.open \in NamedOpens
            /\ arg.answer.close \in Closes
            /\ arg.answer.body \in ArrayBodies)
              => /\ ret.outcome = "items"
                 /\ ret = PageItems(arg.answer.body, arg.source_type)

\* a fenced answer whose array is cut short has been parsed: no entry, and
\* a fenced answer with two items would have given two
C20_Witness ==
    /\ pc = "parsed"
    /\ arg.answer = [open |-> OpenJson, body |-> BodyCutShort, close |-> ClosePlain]
    /\ ret = [outcome |-> "decode_error", entries |-> <<>>]
    /\ Len(PageItems(OpenJson \o BodyTwoItems \o ClosePlain, "events").entries) = 2

\* the items of the answer's array that are objects with a string (or no)
\* time and url
WellFormedItems(content) ==
    LET doc == JsonLoads(StripFences(content))
    IN  IF doc # <<>> /\ doc[1].t = "arr"
        THEN SelectSeq(doc[1].v, LAMBDA it : ~ItemRaises(it))
        ELSE <<>>

\* C29: every well-formed item of a page's answer has its entry, whatever
\* the other items of the answer are: the entries are those of the
\* well-formed items, in their order.
C29_ItemFailureIsolation ==
    pc = "parsed" =>
        ret.entries = [i \in 1..Len(WellFormedItems(Content(arg.answer))) |->
                          ItemEntry(WellFormedItems(Content(arg.answer))[i],
                                    arg.source_type)]

\* the entries are those of the well-formed items that come before the first
\* malformed one
ItemsBeforeFailureKept ==
    pc = "parsed" =>
        \A i \in 1..Len(ret.entries) :
            ret.entries[i] = ItemEntry(WellFormedItems(Content(arg.answer))[i],
                                       arg.source_type)

(***************************************************************************)
(* source_manager.py: the stored list of sources.  SOURCES_FILE is a JSON  *)
(* file, read whole by load_sources and written whole by save_sources;     *)
(* add_source, update_source and delete_source load it, change the list in *)
(* memory and save it, and take no lock.  An id is the decimal string that *)
(* add_source makes, modelled by its number; a URL is a sequence of        *)
(* characters.  Each caller makes one call, and the calls interleave at    *)
(* the reads and writes of the file.                                       *)
(***************************************************************************)
NumCallers == 2
MaxStored == 2

Callers == 1..NumCallers

UrlVisit == 
    <<"h", "t", "t", "p", "s", ":", "/", "/", "v", "i", "s", "i", "t", "v", "a", "l",
      "d", "o", "s", "t", "a", ".", "o", "r", "g", "/", "e", "v", "e", "n", "t",
      "s">>
UrlTripCom == 
    <<"h", "t", "t", "p", "s", ":", "/", "/", "w", "w", "w", ".", "t", "r", "i", "p",
      "a", "d", "v", "i", "s", "o", "r", ".", "c", "o", "m", "/", "t", "e", "s",
      "t">>
UrlTripBare == 
    <<"h", "t", "t", "p", "s", ":", "/", "/", "t", "r", "i", "p", "a", "d", "v", "i",
      "s", "o", "r", ".", "c", "o", "m", "/", "t", "e", "s", "t">>
UrlTripCase == 
    <<"h", "t", "t", "p", "s", ":", "/", "/", "w", "w", "w", ".", "T", "r", "i", "p",
      "A", "d", "v", "i", "s", "o", "r", ".", "c", "o", "m", "/", "t", "e", "s",
      "t">>
UrlTripUk == 
    <<"h", "t", "t", "p", "s", ":", "/", "/", "w", "w", "w", ".", "t", "r", "i", "p",
      "a", "d", "v", "i", "s", "o", "r", ".", "c", "o", ".", "u", "k", "/", "t",
      "e", "s", "t">>
UrlTripUpper == 
    <<"H", "T", "T", "P", "S", ":", "/", "/", "W", "W", "W", ".", "T", "R", "I", "P",
      "A", "D", "V", "I", "S", "O", "R", ".", "D", "E">>
UrlTripWord == 
    <<"h", "t", "t", "p", "s", ":", "/", "/", "e", "x", "a", "m", "p", "l", "e", ".",
      "c", "o", "m", "/", "t", "r", "i", "p", "a", "d", "v", "i", "s", "o", "r">>

Urls == {UrlVisit, UrlTripCom, UrlTripBare, UrlTripCase, UrlTripUk, UrlTripUpper,
         UrlTripWord}

BlockedDomains ==
    << <<"t", "r", "i", "p", "a", "d", "v", "i", "s", "o", "r", ".", "c", "o", "m">>,
       <<"t", "r", "i", "p", "a", "d", "v", "i", "s", "o", "r", ".">> >>

\* is_blocked_url without url.lower()
IsBlockedUrl_CaseSensitive(url) ==
    \E k \in 1..Len(BlockedDomains) : Contains(url, BlockedDomains[k])

\* is_blocked_url
IsBlockedUrl(url) ==
    \E k \in 1..Len(BlockedDomains) : Contains(LowerStr(url), BlockedDomains[k])

Source(id, name, url) == [id |-> id, name |-> name, url |-> url]

\* a call: the function, its source_id, the keys of its dict and their values
Call(op, id, has, name, url) ==
    [op |-> op, id |-> id, has |-> has, name |-> name, url |-> url]

AddCalls ==
    { Call("add_source", 0, {"name", "url"}, "Museum", u) : u \in Urls }
    \cup { Call("add_source", 0, {"name"}, "Museum", <<>>) }

UpdateCalls ==
    { Call("update_source", i, {"url"}, "", u) : i \in 1..MaxStored, u \in Urls }
    \cup { Call("update_source", i, {"name"}, "Renamed", <<>>) : i \in 1..MaxStored }
    \cup { Call("update_source", i, {"id", "name"}, "Moved", <<>>) : i \in 1..MaxStored }

DeleteCalls == { Call("delete_source", i, {}, "", <<>>) : i \in 1..MaxStored }

ManagerCalls == AddCalls \cup UpdateCalls \cup DeleteCalls

\* the sources list of the file, by its length
Stored(n) == [i \in 1..n |-> Source(i, "Park", UrlVisit)]

NoCall == Call("none", 0, {}, "", <<>>)
NoResult == [ok |-> FALSE, id |-> 0]
Idle == [pc |-> "idle", call |-> NoCall, data |-> <<>>, result |-> NoResult]

InitManager ==
    /\ pc = "managing"
    /\ RestInit
    /\ \E n \in 0..MaxStored :
          /\ sources_file \in { [exists |-> TRUE, sources |-> Stored(n)],
                                [exists |-> FALSE, sources |-> <<>>] }
          /\ arg = sources_file
    /\ ret = <<>>
    /\ req = [p \in Callers |-> Idle]

ManagerFrame ==
    /\ UNCHANGED <<pc, today, returned>>
    /\ UNCHANGED exVars /\ UNCHANGED tsVars /\ UNCHANGED geVars /\ UNCHANGED spVars
    /\ UNCHANGED puVars

\* url = source.get('url', '') of add_source; 'url' in updates of update_source
ChecksUrl(call) ==
    /\ call.op \in {"add_source", "update_source"}
    /\ "url" \in call.has

\* caller p enters add_source, update_source or delete_source: the check of
\* the URL raises ValueError before the file is read
Enter(p, call) ==
    /\ req[p].pc = "idle"
    /\ req' = [req EXCEPT ![p].call = call,
                          ![p].pc = IF ChecksUrl(call) /\ IsBlockedUrl(call.url)
                                    THEN "raised" ELSE "load"]
    /\ UNCHANGED sources_file
    /\ ManagerFrame

\* load_sources of caller p: a missing file is created with no sources
LoadSources(p) ==
    /\ req[p].pc = "load"
    /\ req' = [req EXCEPT ![p].data = sources_file.sources, ![p].pc = "save"]
    /\ sources_file' = [exists |-> TRUE, sources |-> sources_file.sources]
    /\ ManagerFrame

\* max_id of add_source
RECURSIVE MaxId(_)
MaxId(sources) ==
    IF sources = <<>> THEN 0 ELSE Max(Head(sources).id, MaxId(Tail(sources)))

\* the position of the first source with this id, or 0
RECURSIVE IndexOfId(_, _, _)
IndexOfId(sources, id, i) ==
    IF i > Len(sources) THEN 0
    ELSE IF sources[i].id = id THEN i
    ELSE IndexOfId(sources, id, i + 1)

\* for key, value in updates.items(): every key but 'id' and 'added_date'
Updated(source, call) ==
    [source EXCEPT !.name = IF "name" \in call.has THEN call.name ELSE @,
                   !.url  = IF "url" \in call.has THEN call.url ELSE @]

\* [s for s in sources if s.get('id') != source_id]
RECURSIVE Without(_, _)
Without(sources, id) ==
    IF sources = <<>> THEN <<>>
    ELSE IF Head(sources).id = id THEN Without(Tail(sources), id)
    ELSE <<Head(sources)>> \o Without(Tail(sources), id)

\* what the call makes of the list it loaded: the list to save, whether it
\* saves, and what it returns
Modify(call, sources) ==
    CASE call.op = "add_source" ->
           [saves |-> TRUE,
            sources |-> Append(sources, Source(MaxId(sources) + 1, call.name,
                                               IF "url" \in call.has THEN call.url ELSE <<>>)),
            result |-> [ok |-> TRUE, id |-> MaxId(sources) + 1]]
      [] call.op = "update_source" ->
           IF IndexOfId(sources, call.id, 1) = 0
           THEN [saves |-> FALSE, sources |-> sources, result |-> NoResult]
           ELSE [saves |-> TRUE,
                 sources |-> [sources EXCEPT ![IndexOfId(sources, call.id, 1)] =
                                                 Updated(@, call)],
                 result |-> [ok |-> TRUE, id |-> call.id]]
      [] call.op = "delete_source" ->
           IF Len(Without(sources, call.id)) < Len(sources)
           THEN [saves |-> TRUE, sources |-> Without(sources, call.id),
                 result |-> [ok |-> TRUE, id |-> call.id]]
           ELSE [saves |-> FALSE, sources |-> sources, result |-> NoResult]

\* the rest of the call of caller p: the change of the loaded list and
\* save_sources, which writes the whole file
SaveSources(p) ==
    /\ req[p].pc = "save"
    /\ \E m \in {Modify(req[p].call, req[p].data)} :
          /\ req' = [req EXCEPT ![p].pc = "returned", ![p].data = m.sources,
                                ![p].result = m.result]
          /\ sources_file' = IF m.saves
                             THEN [exists |-> TRUE, sources |-> m.sources]
                             ELSE sources_file
    /\ ManagerFrame

NextManager ==
    \/ \E p \in Callers, call \in ManagerCalls : Enter(p, call)
    \/ \E p \in Callers : LoadSources(p)
    \/ \E p \in Callers : SaveSources(p)

SpecManager == InitManager /\ [][NextManager]_vars

\* the URL names a host of TripAdvisor: after "//", up to the next "/", a
\* label "tripadvisor" in any letter case followed by a dot
HostOf(url) ==
    LET start == FindFirst(url, <<"/", "/">>)
        rest  == IF start = 0 THEN url ELSE From(url, start + 1)
        slash == FindFirst(rest, <<"/">>)
    IN  IF slash = 0 THEN rest ELSE SubSeq(rest, 1, slash - 1)

IsTripAdvisorUrl(url) ==
    Contains(LowerStr(HostOf(url)),
             <<"t", "r", "i", "p", "a", "d", "v", "i", "s", "o", "r", ".">>)

\* C21: a call of add_source or update_source whose URL holds a TripAdvisor
\* domain, in any letter case and with any top-level domain, raises
\* ValueError, and the step that rejects it leaves the stored list as it was.
C21_TripAdvisorRejected ==
    [][\A p \in Callers :
          (/\ req[p].pc = "idle" /\ req'[p].pc # "idle"
           /\ ChecksUrl(req'[p].call) /\ IsTripAdvisorUrl(req'[p].call.url))
          => /\ req'[p].pc = "raised"
             /\ sources_file' = sources_file]_vars

\* an update_source and an add_source were both rejected, one for a URL in
\* mixed case and one for a .co.uk domain, and the file is as it started
C21_Witness ==
    /\ sources_file.exists /\ Len(sources_file.sources) = MaxStored
    /\ \E p, q \in Callers :
          /\ req[p].pc = "raised" /\ req[p].call.op = "update_source"
          /\ req[p].call.url = UrlTripCase
          /\ req[q].pc = "raised" /\ req[q].call.op = "add_source"
          /\ req[q].call.url = UrlTripUk
    /\ sources_file = arg

\* the call of caller p is over
Finished(p) == req[p].pc \in {"returned", "raised"}

\* the call of caller p returned a source (add, update) or True (delete)
Succeeded(p) == req[p].pc = "returned" /\ req[p].result.ok

\* another caller's successful call changed or removed the source with this id
TouchedByOther(p, id) ==
    \E q \in Callers \ {p} :
        /\ Succeeded(q) /\ req[q].call.op \in {"update_source", "delete_source"}
        /\ req[q].call.id = id

\* another caller's add_source returned this id
AddedByOther(p, id) ==
    \E q \in Callers \ {p} :
        Succeeded(q) /\ req[q].call.op = "add_source" /\ req[q].result.id = id

\* the effect of the successful call of caller p is in the stored list
EffectPresent(p) ==
    LET stored == sources_file.sources
        call   == req[p].call
    IN  CASE call.op = "add_source" ->
               \/ TouchedByOther(p, req[p].result.id)
               \/ \E i \in 1..Len(stored) :
                     stored[i] = Source(req[p].result.id, call.name,
                                        IF "url" \in call.has THEN call.url ELSE <<>>)
          [] call.op = "update_source" ->
               \/ TouchedByOther(p, call.id)
               \/ \E i \in 1..Len(stored) :
                     /\ stored[i].id = call.id
                     /\ "name" \in call.has => stored[i].name = call.name
                     /\ "url" \in call.has => stored[i].url = call.url
          [] call.op = "delete_source" ->
               \/ AddedByOther(p, call.id)
               \/ \A i \in 1..Len(stored) : stored[i].id # call.id

DistinctIds(sources) ==
    \A i, j \in 1..Len(sources) : i # j => sources[i].id # sources[j].id

\* C30: under every interleaving of the calls, the stored sources have
\* pairwise distinct ids, and once the calls are over the effect of every
\* successful call is in the stored list, unless another call changed or
\* removed the same source; two add_source calls are both stored, under
\* different ids.
C30_ConcurrentCalls ==
    /\ DistinctIds(sources_file.sources)
    /\ (\A p \in Callers : Finished(p)) =>
          /\ \A p \in Callers : Succeeded(p) => EffectPresent(p)
          /\ \A p, q \in Callers :
                (/\ p # q /\ Succeeded(p) /\ Succeeded(q)
                 /\ req[p].call.op = "add_source" /\ req[q].call.op = "add_source")
                => req[p].result.id # req[q].result.id

\* the ids of the stored sources are pairwise distinct in every state
StoredIdsDistinct == DistinctIds(sources_file.sources)

(***************************************************************************)
(* _post_process_ai_results: the clean-up of the titles of one page pass,  *)
(* the filters and the removal of repeated events.  An item is             *)
(* [title, start, url]; the url stands for the rest of the item, which the *)
(* function passes on as it is, and tells the items of a page apart.       *)
(***************************************************************************)
MaxPageItems == 3
PrefixLength == 30
ClassGraceDays == 30
MinTitleLength == 3

\* a regular expression anchored at the start and matched with
\* re.IGNORECASE: cut(lower-cased s) tells how much of s is removed
CutIgnoreCase(s, cut(_)) == From(s, Len(s) - Len(cut(LowerStr(s))))

MonthWords ==
    <<<<"j", "a", "n", "u", "a", "r", "y">>,
      <<"f", "e", "b", "r", "u", "a", "r", "y">>,
      <<"m", "a", "r", "c", "h">>,
      <<"a", "p", "r", "i", "l">>,
      <<"m", "a", "y">>,
      <<"j", "u", "n", "e">>,
      <<"j", "u", "l", "y">>,
      <<"a", "u", "g", "u", "s", "t">>,
      <<"s", "e", "p", "t", "e", "m", "b", "e", "r">>,
      <<"o", "c", "t", "o", "b", "e", "r">>,
      <<"n", "o", "v", "e", "m", "b", "e", "r">>,
      <<"d", "e", "c", "e", "m", "b", "e", "r">>>>

\* re.sub(r'^(January|...|December)', '', s), on a lower-cased s
RECURSIVE StripMonthFrom(_, _)
StripMonthFrom(s, k) ==
    IF k > Len(MonthWords) THEN s
    ELSE IF StartsWith(s, MonthWords[k]) THEN From(s, Len(MonthWords[k]))
    ELSE StripMonthFrom(s, k + 1)

StripMonth(s) == StripMonthFrom(s, 1)

\* re.match(r'^\d+(st|nd|rd|th)\s', s), on a lower-cased s
HasOrdinal(s) ==
    LET n == LeadingDigits(s)
    IN  /\ n >= 1 /\ Len(s) >= n + 3
        /\ SubSeq(s, n + 1, n + 2) \in OrdinalSuffixes
        /\ s[n + 3] \in Whitespace

WordWeek == <<"w", "e", "e", "k">>
WordSession == <<"s", "e", "s", "s", "i", "o", "n">>

\* re.match(r'^(week|session)\s+\d+', s), on a lower-cased s
HasWeekNumber(s) ==
    \E w \in {WordWeek, WordSession} :
        /\ StartsWith(s, w)
        /\ Len(s) > Len(w) /\ s[Len(w) + 1] \in Whitespace
        /\ LStrip(From(s, Len(w))) # <<>>
        /\ Head(LStrip(From(s, Len(w)))) \in Digits

\* re.sub(r'^\d+\s+', '', s)
StripNumber(s) ==
    LET n == LeadingDigits(s)
    IN  IF n >= 1 /\ Len(s) > n /\ s[n + 1] \in Whitespace
        THEN LStrip(From(s, n)) ELSE s

\* Step 1: the clean-up of a title, by category, and title.strip()
CleanTitle(title, category) ==
    Strip(CASE category = "events" ->
                 CutIgnoreCase(
                     StripYear(CutIgnoreCase(CutIgnoreCase(title, StripOrdinalAnnual),
                                             StripAnnual)),
                     StripMonth)
            [] category = "classes" ->
                 IF ~HasOrdinal(LowerStr(title)) /\ ~HasWeekNumber(LowerStr(title))
                 THEN StripNumber(title) ELSE title
            [] OTHER -> title)

JunkExact ==
    {<<"l", "o", "g", " ", "i", "n">>,
     <<"s", "i", "g", "n", " ", "u", "p">>,
     <<"l", "e", "a", "r", "n", " ", "m", "o", "r", "e">>,
     <<"r", "e", "a", "d", " ", "m", "o", "r", "e">>,
     <<"c", "l", "i", "c", "k", " ", "h", "e", "r", "e">>,
     <<"m", "e", "n", "u">>,
     <<"s", "e", "a", "r", "c", "h">>,
     <<"h", "o", "m", "e">>,
     <<"a", "b", "o", "u", "t">>,
     <<"c", "o", "n", "t", "a", "c", "t">>,
     <<"p", "r", "i", "v", "a", "c", "y">>,
     <<"t", "e", "r", "m", "s">>,
     <<"g", "e", "t", "t", "i", "n", "g", " ", "t", "h", "e", "r", "e">>,
     <<"s", "h", "a", "r", "e">>,
     <<"s", "a", "v", "e">>,
     <<"m", "a", "p">>,
     <<"p", "h", "o", "t", "o", "s">>}

\* Steps 2 and 3: the title is a junk label or shorter than three characters
IsJunk(title) == LowerStr(title) \in JunkExact \/ Len(title) < MinTitleLength

\* Steps 1 to 3: the items kept, with their cleaned titles
RECURSIVE CleanItems(_, _)
CleanItems(items, category) ==
    IF items = <<>> THEN <<>>
    ELSE LET title == CleanTitle(Head(items).title, category)
         IN  (IF IsJunk(title) THEN <<>> ELSE <<[Head(items) EXCEPT !.title = title]>>)
             \o CleanItems(Tail(items), category)

\* Step 4: the date filter of the category
PassesDateFilter(e, category, now) ==
    CASE category \in {"events", "meetings"} -> DateGE(e.start.date, now)
      [] category = "classes" -> Ordinal(now) - Ordinal(e.start.date) <= ClassGraceDays
      [] OTHER -> TRUE

\* key = f"{event_date}_{normalized_title[:30]}", with the whole title
SamePageKey_WholeTitle(e) == <<e.start.date, CollapseSpaces(LowerStr(e.title))>>

\* key = f"{event_date}_{normalized_title[:30]}"
SamePageKey(e) == <<e.start.date, Prefix(CollapseSpaces(LowerStr(e.title)), PrefixLength)>>

\* Step 5: if key not in seen: seen.add(key); deduplicated.append(event)
RECURSIVE SamePageDedup(_, _)
SamePageDedup(items, seen) ==
    IF items = <<>> THEN <<>>
    ELSE IF SamePageKey(Head(items)) \in seen
    THEN SamePageDedup(Tail(items), seen)
    ELSE <<Head(items)>> \o SamePageDedup(Tail(items), seen \cup {SamePageKey(Head(items))})

\* the items of Steps 1 to 4
Processed(items, category, now) ==
    SelectSeq(CleanItems(items, category),
              LAMBDA e : PassesDateFilter(e, category, now))

\* _post_process_ai_results(results, source_type, base_url)
PostProcessAiResults(items, category, now) ==
    IF category = "events"
    THEN SamePageDedup(Processed(items, category, now), {})
    ELSE Processed(items, category, now)

TitleArtWalkPlain ==
    <<"A", "r", "t", " ", "W", "a", "l", "k">>
TitleArtWalkLoose ==
    <<" ", "a", "r", "t", " ", " ", "W", "A", "L", "K">>
TitleArtWalkYear ==
    <<"2", "0", "2", "6", " ", "A", "r", "t", " ", "W", "a", "l", "k">>
TitleArtWalkNth ==
    <<"3", "R", "D", " ", "A", "n", "n", "u", "a", "l", " ", "A", "r", "t", " ", "W",
      "a", "l", "k">>
TitleMayDay ==
    <<"M", "a", "y", " ", "D", "a", "y", " ", "P", "a", "r", "a", "d", "e">>
TitleDayParade ==
    <<"D", "a", "y", " ", "P", "a", "r", "a", "d", "e">>
TitleLongOne ==
    <<"V", "a", "l", "d", "o", "s", "t", "a", " ", "S", "y", "m", "p", "h", "o", "n",
      "y", " ", "O", "r", "c", "h", "e", "s", "t", "r", "a", " ", "S", "p", "r",
      "i", "n", "g", " ", "C", "o", "n", "c", "e", "r", "t">>
TitleLongTwo ==
    <<"V", "a", "l", "d", "o", "s", "t", "a", " ", "S", "y", "m", "p", "h", "o", "n",
      "y", " ", "O", "r", "c", "h", "e", "s", "t", "r", "a", " ", "S", "p", "r",
      "i", "n", "g", "t", "i", "m", "e", " ", "G", "a", "l", "a">>
TitleMenu ==
    <<"M", "e", "n", "u">>
TitleShort ==
    <<"7", " ", "U", "p">>
TitleWeek ==
    <<"W", "e", "e", "k", " ", "3", " ", "P", "o", "t", "t", "e", "r", "y">>

PageTitles ==
    {TitleArtWalkPlain, TitleArtWalkLoose, TitleArtWalkYear, TitleArtWalkNth,
     TitleMayDay, TitleDayParade, TitleLongOne, TitleLongTwo, TitleMenu, TitleShort,
     TitleWeek}

LongPast == MkDate(2026, 1, 1)

PageStarts ==
    {MkStart(Future, T1800), MkStart(Future, T1900), MkStart(Past, T1800),
     MkStart(LongPast, T1800)}

\* what a page pass may hand over: the items of a page, told apart by url
PageResults ==
    UNION { [1..n -> PageTitles \X {MkStart(Future, T1800)}] : n \in 0..MaxPageItems }
    \cup [1..2 -> PageTitles \X PageStarts]

InitPostProcess ==
    /\ pc = "call"
    /\ RestInit
    /\ \E page \in PageResults, category \in Categories :
          arg = [results |-> [i \in 1..Len(page) |->
                                 [title |-> page[i][1], start |-> page[i][2], url |-> i]],
                 source_type |-> category]
    /\ ret = <<>>
    /\ req = <<>> /\ sources_file = <<>>

PostProcess ==
    /\ pc = "call"
    /\ ret' = PostProcessAiResults(arg.results, arg.source_type, today)
    /\ pc' = "done"
    /\ UNCHANGED arg
    /\ RestFrame

NextPostProcess == PostProcess

SpecPostProcess == InitPostProcess /\ [][NextPostProcess]_vars

\* the key of the claim: the date and the first 30 characters of the
\* lower-cased title with its whitespace collapsed
ClaimedPageKey(e) ==
    <<e.start.date, SubSeq(CollapseSpaces(LowerStr(e.title)), 1,
                           Min(30, Len(CollapseSpaces(LowerStr(e.title)))))>>

\* no two of the returned items share the key, and each is the first, in
\* input order, of the processed items with its key
DedupedByKey ==
    LET before == Processed(arg.results, arg.source_type, today)
    IN  /\ \A i, j \in 1..Len(ret) :
              i # j => ClaimedPageKey(ret[i]) # ClaimedPageKey(ret[j])
        /\ \A k \in 1..Len(before) :
              \E i \in 1..Len(ret) :
                  /\ ClaimedPageKey(ret[i]) = ClaimedPageKey(before[k])
                  /\ ret[i].url <= before[k].url
        /\ \A i \in 1..Len(ret) : \E k \in 1..Len(before) : before[k] = ret[i]

\* C23: after the post-processing of a page pass, for every category, no
\* two remaining items share the key (date, first 30 characters of the
\* normalized title), and the first item of a key is the one kept.
C23_SamePageDedup == pc = "done" => DedupedByKey

\* C23, amended: the same for the category events, the only one whose
\* repeated items are removed.
C23_SamePageDedupEvents ==
    (pc = "done" /\ arg.source_type = "events") => DedupedByKey

\* an events page whose second item repeats the first in other letter case
\* and spacing, and whose third repeats it behind a leading year: only the
\* first is returned
C23_Witness ==
    /\ pc = "done" /\ arg.source_type = "events"
    /\ Len(arg.results) = 3
    /\ arg.results[1].title = TitleArtWalkPlain
    /\ arg.results[2].title = TitleArtWalkLoose
    /\ arg.results[3].title = TitleArtWalkYear
    /\ Len(ret) = 1 /\ ret[1].url = 1

(***************************************************************************)
(* scrape_generic_auto, Pattern 2: the loop over the containers of a page  *)
(* on which the calendar table gave nothing, then the headers of an        *)
(* attractions page, the past-date filter and the removal of repeats.  A   *)
(* container is [title, strategy, date, time]: the title after its         *)
(* clean-up; where the date text was found ("element": in a date or time   *)
(* element; "nearby": a month name and a day number in the container's     *)
(* text; "none"); what dateparser.parse makes of it (NoDate for None) and  *)
(* what extract_time makes of the container's text.  The variable          *)
(* container_text is assigned only when the second strategy runs.          *)
(***************************************************************************)
MaxContainers == 2
FirstHour == 9
LastHour == 17

\* the day before, or the month before on the first of a month
Yesterday(now) ==
    IF now.d > 1 THEN MkDate(now.y, now.m, now.d - 1) ELSE AddMonths(now, 0 - 1)

LeapDay == MkDate(2028, 2, 29)

\* what the date text of a container may parse to
ContainerDates(now) ==
    {AddMonths(now, 0 - 14), AddMonths(now, 0 - 3), AddMonths(now, 0 - 1), Yesterday(now),
     now, AddMonths(now, 1), LeapDay}

TitleGala == <<"G", "a", "l", "a">>
TitleGalaUpper == <<"G", "A", "L", "A">>

Container(title, strategy, date, time) ==
    [title |-> title, strategy |-> strategy, date |-> date, time |-> time]

\* a month name and a day number parse to a date of the current year
Containers(now) ==
    { Container(t, "element", d, T1830) :
        t \in {TitleGala, TitleGalaUpper}, d \in ContainerDates(now) \cup {NoDate} }
    \cup { Container(TitleGala, "nearby", d, T1800) :
             d \in { c \in ContainerDates(now) : c.y = now.y } }
    \cup { Container(TitleGalaUpper, "none", NoDate, T1900) }

Unassigned == <<>>

InitStructural ==
    /\ pc = "containers"
    /\ today \in CurDates
    /\ source_type \in {"events", "attractions"}
    /\ \E n \in 1..MaxContainers : arg \in [1..n -> Containers(today)]
    /\ ret = [seen_titles |-> {}, container_text |-> Unassigned]
    /\ idx = 1
    /\ all_results = <<>>
    /\ heap = <<>> /\ origin = <<>> /\ results = <<>> /\ expanded = <<>>
    /\ event_urls = <<>> /\ with_url = <<>>
    /\ made_for = <<>> /\ stage2 = <<>> /\ log = <<>>
    /\ site = 0 /\ all_events = <<>> /\ attractions = <<>>
    /\ client = NULL /\ user_query = <<>> /\ cur_item = <<>>
    /\ req = <<>> /\ sources_file = <<>>
    /\ returned = <<>>

StructuralFrame ==
    /\ UNCHANGED <<today, source_type, arg, event_urls, with_url, made_for, stage2, log,
                   cur_item>>
    /\ UNCHANGED exVars /\ UNCHANGED geVars /\ UNCHANGED rqVars

\* "if dt.date() < datetime.now().date(): dt = dt.replace(year=dt.year + 1)":
\* the date of the entry, or none when replace raises
StructuralDate(parsed, now) ==
    IF DateLT(parsed, now)
    THEN (IF IsValidDate(parsed.y + 1, parsed.m, parsed.d)
          THEN <<MkDate(parsed.y + 1, parsed.m, parsed.d)>> ELSE <<>>)
    ELSE <<parsed>>

\* the entries an events container adds: none without a date text, for a
\* date that does not parse, when replace raises, or when container_text is
\* not assigned (NameError, caught by "except Exception: pass")
EventContainerEntries(c, k, text, now) ==
    IF c.strategy = "none" \/ c.date = NoDate \/ text = Unassigned
       \/ StructuralDate(c.date, now) = <<>>
    THEN <<>>
    ELSE <<[title |-> c.title, url |-> k, description |-> <<>>,
            start |-> MkStart(StructuralDate(c.date, now)[1], ValidTime(text[1])),
            allDay |-> FALSE]>>

\* one turn of "for container in containers"
ContainerStep(h) ==
    /\ pc = "containers" /\ idx <= Len(arg)
    /\ LET c == arg[idx]
           skipped == LowerStr(c.title) \in ret.seen_titles
           text == IF source_type = "events" /\ c.strategy # "element" /\ ~skipped
                   THEN (IF c.strategy = "nearby" THEN <<c.time>> ELSE ret.container_text)
                   ELSE ret.container_text
       IN  /\ ret' = [seen_titles |-> ret.seen_titles \cup {LowerStr(c.title)},
                      container_text |-> text]
           /\ all_results' =
                 IF skipped THEN all_results
                 ELSE IF source_type = "events"
                 THEN all_results \o EventContainerEntries(c, idx, text, today)
                 ELSE Append(all_results,
                             [title |-> c.title, url |-> idx, description |-> <<>>,
                              start |-> MkStart(today, HourString(h)),
                              allDay |-> FALSE])
    /\ idx' = idx + 1
    /\ UNCHANGED <<pc, returned>>
    /\ StructuralFrame

\* results = [r for r in results if ... >= current_date]
RECURSIVE NotPast(_, _)
NotPast(entries, now) ==
    IF entries = <<>> THEN <<>>
    ELSE (IF DateGE(Head(entries).start.date, now) THEN <<Head(entries)>> ELSE <<>>)
         \o NotPast(Tail(entries), now)

HeaderLimit == 20

TitlePark == <<"P", "a", "r", "k">>
TitleOverview == <<"O", "v", "e", "r", "v", "i", "e", "w">>

SectionHeaders ==
    {<<"t", "h", "i", "n", "g", "s", " ", "t", "o", " ", "d", "o">>,
     <<"a", "t", "t", "r", "a", "c", "t", "i", "o", "n", "s">>,
     <<"e", "v", "e", "n", "t", "s">>,
     <<"o", "v", "e", "r", "v", "i", "e", "w">>,
     <<"a", "b", "o", "u", "t">>}

\* Pattern 3, "for header in article_headers": the entries of the headers
\* that are no section headers and were not found before
RECURSIVE HeaderEntries(_, _, _)
HeaderEntries(headers, seen, now) ==
    IF headers = <<>> THEN <<>>
    ELSE IF \/ Len(Head(headers)) < MinTitleLength
            \/ LowerStr(Head(headers)) \in SectionHeaders
            \/ LowerStr(Head(headers)) \in seen
    THEN HeaderEntries(Tail(headers), seen, now)
    ELSE <<[title |-> Head(headers), url |-> 0, description |-> <<>>,
            start |-> MkStart(now, T1000), allDay |-> FALSE]>>
         \o HeaderEntries(Tail(headers), seen \cup {LowerStr(Head(headers))}, now)

\* after the loop: the headers of an attractions page with fewer than 20
\* results; for events the past-date filter and the removal of repeats; the
\* list is returned
StructuralReturn(headers) ==
    /\ pc = "containers" /\ idx > Len(arg)
    /\ returned' =
          IF source_type = "events"
          THEN SamePageDedup(NotPast(all_results, today), {})
          ELSE IF Len(all_results) < HeaderLimit
          THEN all_results \o
               HeaderEntries(headers,
                             { LowerStr(all_results[i].title) : i \in 1..Len(all_results) },
                             today)
          ELSE all_results
    /\ pc' = "done"
    /\ UNCHANGED <<idx, all_results, ret>>
    /\ StructuralFrame

NextStructural ==
    \/ \E h \in {FirstHour, LastHour} : ContainerStep(h)
    \/ \E headers \in {<<>>, <<TitleGala, TitlePark>>, <<TitleOverview, TitlePark, TitlePark>>} :
          StructuralReturn(headers)

SpecStructural == InitStructural /\ [][NextStructural]_vars

\* the parsed date of container c lies before the current date, in the
\* current month or at most two months back
RecentPast(c) ==
    /\ c.date # NoDate
    /\ Ordinal(c.date) < Ordinal(today)
    /\ MonthsDiff(today, c.date) >= 0 /\ MonthsDiff(today, c.date) <= 2

\* C25: an event whose parsed date is recent past keeps its parsed year in
\* the entry made of it, and no entry of the returned list is made of it.
C25_RecentPastDropped ==
    source_type = "events" =>
        /\ \A i \in 1..Len(all_results) :
              RecentPast(arg[all_results[i].url]) =>
                  all_results[i].start.date = arg[all_results[i].url].date
        /\ \A i \in 1..Len(returned) : ~RecentPast(arg[returned[i].url])

\* no returned event is dated before the current date
StructuralNoPast ==
    source_type = "events" =>
        \A i \in 1..Len(returned) : DateGE(returned[i].start.date, today)
=============================================================================
